---- MODULE Spec2Model ----
(***************************************************************************)
(* Query interpretation and retrieval orchestration of the UFDR assistant  *)
(* prototype (src/prototype/src/ai/query_engine.py, query_planner.py).     *)
(*                                                                         *)
(* Text is a sequence of one-character strings, so that substring tests,   *)
(* whitespace splitting and the regular expressions of the source are      *)
(* computed and not assumed.  A datetime is an integer number of seconds   *)
(* on the UTC axis; an absent value (Python None) is the empty tuple and   *)
(* a present value v is <<v>>.                                             *)
(***************************************************************************)
EXTENDS Integers, Sequences, FiniteSets, TLC

\* ------------------------------------------------------------------ text

None == <<>>
Some(v) == <<v>>
IsSome(o) == o # <<>>
Val(o) == o[1]
\* Python's "a or b" on optional values
OrElse(a, b) == IF IsSome(a) THEN a ELSE b

DigitChars == {"0", "1", "2", "3", "4", "5", "6", "7", "8", "9"}
LetterChars ==
    {"a", "b", "c", "d", "e", "f", "g", "h", "i", "j", "k", "l", "m",
     "n", "o", "p", "q", "r", "s", "t", "u", "v", "w", "x", "y", "z"}

IsDigit(c) == c \in DigitChars
\* the character class [a-z0-9]
IsAlnum(c) == c \in LetterChars \cup DigitChars
IsSpace(c) == c = " "
NotSpace(c) == c # " "
\* the character class [\w\s,/-] on lower-cased text
IsDateChar(c) == IsAlnum(c) \/ c \in {" ", ",", "/", "-", "_"}

DigitVal(c) ==
    CASE c = "0" -> 0 [] c = "1" -> 1 [] c = "2" -> 2 [] c = "3" -> 3
      [] c = "4" -> 4 [] c = "5" -> 5 [] c = "6" -> 6 [] c = "7" -> 7
      [] c = "8" -> 8 [] c = "9" -> 9

LowerChar(c) ==
    CASE c = "A" -> "a"
      [] c = "B" -> "b"
      [] c = "C" -> "c"
      [] c = "D" -> "d"
      [] c = "E" -> "e"
      [] c = "F" -> "f"
      [] c = "G" -> "g"
      [] c = "H" -> "h"
      [] c = "I" -> "i"
      [] c = "J" -> "j"
      [] c = "K" -> "k"
      [] c = "L" -> "l"
      [] c = "M" -> "m"
      [] c = "N" -> "n"
      [] c = "O" -> "o"
      [] c = "P" -> "p"
      [] c = "Q" -> "q"
      [] c = "R" -> "r"
      [] c = "S" -> "s"
      [] c = "T" -> "t"
      [] c = "U" -> "u"
      [] c = "V" -> "v"
      [] c = "W" -> "w"
      [] c = "X" -> "x"
      [] c = "Y" -> "y"
      [] c = "Z" -> "z"
      [] OTHER -> c

\* str.lower()
Lower(s) == [i \in 1..Len(s) |-> LowerChar(s[i])]

\* s[k], or the empty string past either end
At(s, k) == IF k >= 1 /\ k <= Len(s) THEN s[k] ELSE ""

\* t occurs in s at position i
StartsAt(s, i, t) ==
    /\ i >= 1
    /\ i + Len(t) - 1 <= Len(s)
    /\ \A j \in 1..Len(t) : s[i + j - 1] = t[j]

\* Python's "t in s"
Contains(s, t) == \E i \in 1..(Len(s) - Len(t) + 1) : StartsAt(s, i, t)

\* the last index of the run of marked characters that starts at i
RunEnd(ok, i) ==
    CHOOSE j \in i..Len(ok) :
        /\ \A k \in i..j : ok[k]
        /\ (j = Len(ok) \/ ~ok[j + 1])

\* the maximal runs of s whose characters are marked in ok
MaximalRuns(s, ok) ==
    { SubSeq(s, i, RunEnd(ok, i)) :
        i \in { k \in 1..Len(s) : ok[k] /\ (k = 1 \/ ~ok[k - 1]) } }

\* set(str.split())
Split(s) == MaximalRuns(s, [k \in 1..Len(s) |-> NotSpace(s[k])])

\* set(re.findall(r"[a-z0-9]{3,}", s))
AlnumTokens(s) ==
    { t \in MaximalRuns(s, [k \in 1..Len(s) |-> IsAlnum(s[k])]) : Len(t) >= 3 }

\* str.strip()
Strip(s) ==
    IF \A k \in 1..Len(s) : IsSpace(s[k]) THEN <<>>
    ELSE LET a == CHOOSE i \in 1..Len(s) :
                      NotSpace(s[i]) /\ \A k \in 1..(i - 1) : IsSpace(s[k])
             b == CHOOSE j \in 1..Len(s) :
                      NotSpace(s[j]) /\ \A k \in (j + 1)..Len(s) : IsSpace(s[k])
         IN  SubSeq(s, a, b)

\* the first index at or after k that holds no space (Len(s) + 1 at the end)
SkipSpaces(s, k) ==
    CHOOSE p \in k..(Len(s) + 1) :
        /\ \A i \in k..(p - 1) : IsSpace(s[i])
        /\ (p = Len(s) + 1 \/ NotSpace(s[p]))

RECURSIVE NumVal(_)
\* int() of a run of digits
NumVal(ds) ==
    IF ds = <<>> THEN 0
    ELSE 10 * NumVal(SubSeq(ds, 1, Len(ds) - 1)) + DigitVal(ds[Len(ds)])

\* ------------------------------------------------------------- lexicon

STOP_WORDS ==
    {<<"t","h","e">>, <<"a">>, <<"a","n">>, <<"i","s">>,
     <<"a","r","e">>, <<"t","o">>, <<"f","o","r">>, <<"a","b","o","u","t">>,
     <<"s","h","o","w">>, <<"m","e">>, <<"l","i","s","t">>, <<"o","f">>,
     <<"a","n","y">>, <<"t","h","e","r","e">>, <<"w","h","e","r","e">>, <<"w","h","a","t">>,
     <<"w","h","i","c","h">>, <<"w","h","o">>, <<"w","h","e","n">>, <<"a","n","d">>,
     <<"o","r">>, <<"w","i","t","h">>, <<"f","r","o","m">>, <<"l","a","s","t">>,
     <<"d","a","y">>, <<"d","a","y","s">>, <<"w","e","e","k">>, <<"w","e","e","k","s">>,
     <<"m","o","n","t","h">>, <<"m","o","n","t","h","s">>, <<"i","n","f","o","r","m","a","t","i","o","n">>, <<"i","n","f","o">>,
     <<"m","e","s","s","a","g","e","s">>, <<"m","e","s","s","a","g","e">>, <<"c","a","l","l","s">>, <<"c","a","l","l">>,
     <<"p","e","r","s","o","n">>, <<"p","e","o","p","l","e">>, <<"c","o","n","t","a","c","t">>, <<"c","o","n","t","a","c","t","s">>,
     <<"l","o","c","a","t","i","o","n">>, <<"l","o","c","a","t","i","o","n","s">>, <<"v","i","s","i","t">>, <<"v","i","s","i","t","e","d">>,
     <<"o","n">>, <<"i","n">>, <<"a","f","t","e","r">>, <<"b","e","f","o","r","e">>,
     <<"b","e","t","w","e","e","n">>, <<"r","a","n","g","e">>, <<"t","o","d","a","y">>, <<"y","e","s","t","e","r","d","a","y">>,
     <<"r","e","c","e","n","t">>, <<"r","e","c","e","n","t","l","y">>, <<"t","h","i","s">>, <<"t","h","a","t">>,
     <<"t","h","e","s","e">>, <<"t","h","o","s","e">>, <<"s","o","m","e","o","n","e">>, <<"a","n","y","o","n","e">>,
     <<"e","v","e","r","y","o","n","e">>, <<"t","e","l","l">>, <<"g","i","v","e">>, <<"d","e","t","a","i","l","s">>,
     <<"r","e","p","o","r","t">>}

LOCATION_TERMS ==
    {<<"l","o","c","a","t","i","o","n">>, <<"l","o","c","a","t","i","o","n","s">>, <<"v","i","s","i","t">>,
     <<"v","i","s","i","t","e","d">>, <<"w","h","e","r","e">>, <<"t","r","a","v","e","l">>,
     <<"m","o","v","e","m","e","n","t">>, <<"r","o","u","t","e">>}

CALL_TERMS ==
    {<<"c","a","l","l">>, <<"c","a","l","l","e","d">>, <<"s","p","o","k","e">>,
     <<"d","i","a","l">>, <<"c","o","n","v","e","r","s","a","t","i","o","n">>}

MESSAGE_TERMS ==
    {<<"m","e","s","s","a","g","e">>, <<"m","e","s","s","a","g","e","s">>, <<"c","h","a","t">>,
     <<"t","e","x","t">>, <<"i","n","f","o","r","m","a","t","i","o","n">>, <<"t","o","p","i","c">>,
     <<"n","o","t","e">>}

GRAPH_TERMS ==
    {<<"c","o","n","n","e","c","t","i","o","n">>, <<"c","o","n","n","e","c","t","i","o","n","s">>, <<"n","e","t","w","o","r","k">>,
     <<"r","e","l","a","t","i","o","n","s","h","i","p">>, <<"l","i","n","k">>}

FOREIGN_TERMS ==
    {<<"f","o","r","e","i","g","n">>, <<"i","n","t","e","r","n","a","t","i","o","n","a","l">>, <<"n","o","n","-","i","n","d","i","a","n">>,
     <<"o","v","e","r","s","e","a","s">>}

SUSPICIOUS_TERMS ==
    <<<<"b","t","c">>, <<"b","i","t","c","o","i","n">>, <<"w","a","l","l","e","t">>, <<"c","r","y","p","t","o">>, <<"t","r","a","n","s","f","e","r">>, <<"c","a","s","h">>, <<"b","r","o","k","e","r">>>>

SuspiciousSet == { SUSPICIOUS_TERMS[i] : i \in 1..Len(SUSPICIOUS_TERMS) }

\* ---------------------------------------------------------------- time

HourLen == 60 * 60
DayLen == 24 * HourLen

\* LOCAL_TIMEZONE, the fixed reporting timezone, as its offset from UTC
LocalOffset == 5 * HourLen + 30 * 60

\* datetime.time(hour, minute), as seconds since midnight
TimeOfDay(hour, minute) == hour * HourLen + minute * 60

MinOf(S) == CHOOSE x \in S : \A y \in S : x <= y
MaxOf(S) == CHOOSE x \in S : \A y \in S : y <= x
Clamp(lo, x, hi) == IF x < lo THEN lo ELSE IF x > hi THEN hi ELSE x

W_after == <<"a","f","t","e","r">>
W_am == <<"a","m">>
W_pm == <<"p","m">>

\* the groups of (\d{1,2})(?::(\d{2}))?\s*(am|pm)? matched at the digit at p
TimeGroups(s, p) ==
    LET hEnd == IF IsDigit(At(s, p + 1)) THEN p + 2 ELSE p + 1
        hasMin == /\ At(s, hEnd) = ":"
                  /\ IsDigit(At(s, hEnd + 1))
                  /\ IsDigit(At(s, hEnd + 2))
        mEnd == IF hasMin THEN hEnd + 3 ELSE hEnd
        r == SkipSpaces(s, mEnd)
    IN  [hour |-> NumVal(SubSeq(s, p, hEnd - 1)),
         minute |-> IF hasMin THEN NumVal(SubSeq(s, hEnd + 1, hEnd + 2)) ELSE 0,
         meridiem |-> IF StartsAt(s, r, W_am) THEN "am"
                      ELSE IF StartsAt(s, r, W_pm) THEN "pm" ELSE "none",
         stop |-> IF StartsAt(s, r, W_am) \/ StartsAt(s, r, W_pm)
                  THEN r + 1 ELSE mEnd - 1]

\* where after\s+(\d{1,2}) matches in s
AfterStarts(s) ==
    { i \in 1..Len(s) :
        /\ StartsAt(s, i, W_after)
        /\ IsSpace(At(s, i + 5))
        /\ IsDigit(At(s, SkipSpaces(s, i + 5))) }

\* the cutoff with the minute taken as written
extract_time_filter_minute_unclamped(query) ==
    IF AfterStarts(query) = {} THEN None
    ELSE LET i == MinOf(AfterStarts(query))
             m == TimeGroups(query, SkipSpaces(query, i + 5))
             h1 == IF m.meridiem = "pm" /\ m.hour # 12 THEN m.hour + 12 ELSE m.hour
             h2 == IF m.meridiem = "am" /\ h1 = 12 THEN 0 ELSE h1
         IN  Some(TimeOfDay(h2 % 24, m.minute))

extract_time_filter(query) ==
    IF AfterStarts(query) = {} THEN None
    ELSE LET i == MinOf(AfterStarts(query))
             m == TimeGroups(query, SkipSpaces(query, i + 5))
             h1 == IF m.meridiem = "pm" /\ m.hour # 12 THEN m.hour + 12 ELSE m.hour
             h2 == IF m.meridiem = "am" /\ h1 = 12 THEN 0 ELSE h1
         IN  Some(TimeOfDay(h2 % 24, Clamp(0, m.minute, 59)))

\* the plan's time with the hour cut at 23 instead of wrapped
parse_time_of_day_cut(text) ==
    LET snippet == Lower(Strip(text))
        digits == { i \in 1..Len(snippet) : IsDigit(snippet[i]) }
    IN  IF digits = {} THEN None
        ELSE LET m == TimeGroups(snippet, MinOf(digits))
                 h1 == IF m.meridiem = "pm" /\ m.hour # 12 THEN m.hour + 12 ELSE m.hour
                 h2 == IF m.meridiem = "am" /\ h1 = 12 THEN 0 ELSE h1
             IN  Some(TimeOfDay(Clamp(0, h2, 23), Clamp(0, m.minute, 59)))

parse_time_of_day(text) ==
    LET snippet == Lower(Strip(text))
        digits == { i \in 1..Len(snippet) : IsDigit(snippet[i]) }
    IN  IF digits = {} THEN None
        ELSE LET m == TimeGroups(snippet, MinOf(digits))
                 h1 == IF m.meridiem = "pm" /\ m.hour # 12 THEN m.hour + 12 ELSE m.hour
                 h2 == IF m.meridiem = "am" /\ h1 = 12 THEN 0 ELSE h1
             IN  Some(TimeOfDay(Clamp(0, h2 % 24, 23), Clamp(0, m.minute, 59)))

\* --------------------------------------------------------------- dates

\* t.astimezone(LOCAL_TIMEZONE).replace(hour=0, minute=0, second=0, microsecond=0)
LocalMidnight(t) == ((t + LocalOffset) \div DayLen) * DayLen - LocalOffset

\* t.astimezone(LOCAL_TIMEZONE).replace(hour=23, minute=59, second=59, ...):
\* the last instant of the local day of t
LocalEndOfDay(t) == LocalMidnight(t) + DayLen - 1

\* local midnight of the n-th day of the model's calendar ("n jan")
LocalDay(n) == n * DayLen - LocalOffset

\* the range left as the two dates were given
KeepAsGiven(ls, le) == <<Some(ls), Some(le)>>

\* if local_start > local_end: local_start, local_end = local_end, local_start
SwapIfInverted(ls, le) ==
    IF ls > le THEN <<Some(le), Some(ls)>> ELSE <<Some(ls), Some(le)>>

\* Datetimes here are timezone-aware, as dateparser is asked to return them,
\* so the two tzinfo repairs of the source change nothing.
normalize_range(start, end) ==
    IF ~IsSome(start) /\ ~IsSome(end) THEN <<None, None>>
    ELSE LET s == OrElse(start, end)
             e == OrElse(end, start)
         IN  SwapIfInverted(LocalMidnight(Val(s)), LocalEndOfDay(Val(e)))

\* the range check with its start test left out
timestamp_in_range_end_only(stamp, date_range) ==
    ~(IsSome(date_range[2]) /\ stamp > Val(date_range[2]))

\* _timestamp_in_range
timestamp_in_range(stamp, date_range) ==
    /\ ~(IsSome(date_range[1]) /\ stamp < Val(date_range[1]))
    /\ ~(IsSome(date_range[2]) /\ stamp > Val(date_range[2]))

W_last == <<"l","a","s","t">>
W_day == <<"d","a","y">>
W_week == <<"w","e","e","k">>
W_month == <<"m","o","n","t","h">>
W_between == <<"b","e","t","w","e","e","n">>
W_from == <<"f","r","o","m">>
W_and == <<"a","n","d">>
W_to == <<"t","o">>
W_jan == <<" ","j","a","n">>
W_yesterday == <<"y","e","s","t","e","r","d","a","y">>
W_today == <<"t","o","d","a","y">>

DigitMask(s) == [k \in 1..Len(s) |-> IsDigit(s[k])]
DateCharMask(s) == [k \in 1..Len(s) |-> IsDateChar(s[k])]

\* the part of the library dateparser the queries of this model use:
\* "<n> jan" is the n-th day at local midnight, "yesterday" and "today" are
\* relative to the clock, anything else does not parse
dateparser_parse(fragment, now) ==
    LET n == Len(fragment)
    IN  IF /\ n >= 5
           /\ SubSeq(fragment, n - 3, n) = W_jan
           /\ \A k \in 1..(n - 4) : IsDigit(fragment[k])
        THEN Some(LocalDay(NumVal(SubSeq(fragment, 1, n - 4))))
        ELSE IF fragment = W_yesterday THEN Some(now - DayLen)
        ELSE IF fragment = W_today THEN Some(now)
        ELSE None

parse_date_fragment(fragment, now) ==
    IF Strip(fragment) = <<>> THEN None ELSE dateparser_parse(Strip(fragment), now)

\* where last\s+(\d+)\s+(day|days|week|weeks|month|months) matches in text
UnitAt(text, u) ==
    IF StartsAt(text, u, W_day) THEN "day"
    ELSE IF StartsAt(text, u, W_week) THEN "week"
    ELSE IF StartsAt(text, u, W_month) THEN "month"
    ELSE "none"

LastStarts(text) ==
    { i \in 1..Len(text) :
        /\ StartsAt(text, i, W_last)
        /\ IsSpace(At(text, i + 4))
        /\ LET p == SkipSpaces(text, i + 4)
           IN  /\ IsDigit(At(text, p))
               /\ LET e == RunEnd(DigitMask(text), p)
                  IN  /\ IsSpace(At(text, e + 1))
                      /\ UnitAt(text, SkipSpaces(text, e + 1)) # "none" }

\* the window counted in days whatever the unit
LastRangeInDays(text, now) ==
    LET i == MinOf(LastStarts(text))
        p == SkipSpaces(text, i + 4)
        e == RunEnd(DigitMask(text), p)
        value == NumVal(SubSeq(text, p, e))
    IN  normalize_range(Some(now - value * DayLen), Some(now))

LastRange(text, now) ==
    LET i == MinOf(LastStarts(text))
        p == SkipSpaces(text, i + 4)
        e == RunEnd(DigitMask(text), p)
        value == NumVal(SubSeq(text, p, e))
        unit == UnitAt(text, SkipSpaces(text, e + 1))
        days == IF unit = "week" THEN value * 7
                ELSE IF unit = "month" THEN value * 30 ELSE value
    IN  normalize_range(Some(now - days * DayLen), Some(now))

\* (?:between|from)\s+([\w\s,/-]+?)\s+(?:and|to)\s+([\w\s,/-]+) matched with
\* the keyword at i (kw characters long): the two groups, or <<>> if no match
SepAt(text, c) ==
    IF StartsAt(text, c, W_and) THEN 3
    ELSE IF StartsAt(text, c, W_to) THEN 2 ELSE 0

FirstGroupEnds(text, a) ==
    { b \in a..Len(text) :
        /\ \A k \in a..b : IsDateChar(text[k])
        /\ IsSpace(At(text, b + 1))
        /\ LET c == SkipSpaces(text, b + 1)
           IN  /\ SepAt(text, c) > 0
               /\ IsSpace(At(text, c + SepAt(text, c)))
               /\ IsDateChar(At(text, SkipSpaces(text, c + SepAt(text, c)))) }

BetweenGroups(text, i, kw) ==
    IF ~IsSpace(At(text, i + kw)) THEN <<>>
    ELSE LET a == SkipSpaces(text, i + kw)
         IN  IF FirstGroupEnds(text, a) = {} THEN <<>>
             ELSE LET b == MinOf(FirstGroupEnds(text, a))
                      c == SkipSpaces(text, b + 1)
                      d == SkipSpaces(text, c + SepAt(text, c))
                  IN  <<SubSeq(text, a, b),
                        SubSeq(text, d, RunEnd(DateCharMask(text), d))>>

KeywordAt(text, i) ==
    IF StartsAt(text, i, W_between) THEN 7
    ELSE IF StartsAt(text, i, W_from) THEN 4 ELSE 0

BetweenStarts(text) ==
    { i \in 1..Len(text) :
        KeywordAt(text, i) > 0 /\ BetweenGroups(text, i, KeywordAt(text, i)) # <<>> }

BetweenRange(text, now) ==
    LET i == MinOf(BetweenStarts(text))
        g == BetweenGroups(text, i, KeywordAt(text, i))
    IN  normalize_range(parse_date_fragment(g[1], now), parse_date_fragment(g[2], now))

W_before == <<"b","e","f","o","r","e">>
W_around == <<"a","r","o","u","n","d">>
W_at == <<"a","t">>

\* re.fullmatch(r"(?:after|before|around|at)?\s*\d{1,2}(?::\d{2})?\s*(?:am|pm)", ...)
TimePrefixLen(snippet) ==
    IF StartsAt(snippet, 1, W_after) THEN 5
    ELSE IF StartsAt(snippet, 1, W_before) THEN 6
    ELSE IF StartsAt(snippet, 1, W_around) THEN 6
    ELSE IF StartsAt(snippet, 1, W_at) THEN 2 ELSE 0

looks_like_time_only(fragment) ==
    LET snippet == Lower(Strip(fragment))
        p == SkipSpaces(snippet, TimePrefixLen(snippet) + 1)
    IN  /\ IsDigit(At(snippet, p))
        /\ TimeGroups(snippet, p).meridiem # "none"
        /\ TimeGroups(snippet, p).stop = Len(snippet)

looks_like_noise_fragment(fragment) ==
    LET snippet == Lower(Strip(fragment))
    IN  Len(snippet) <= 2 \/ snippet \in {<<"m","e">>, <<"y","o">>, <<"t","u">>, <<"i","l">>}

\* the part of dateparser.search.search_dates the queries of this model use:
\* every "<n> jan", every "after <time> am|pm" (a time today) and "yesterday",
\* each as a (fragment, datetime) pair
search_dates(query, now) ==
    LET text == Lower(query)
        janStarts == { p \in 1..Len(text) :
                        /\ IsDigit(text[p])
                        /\ ~IsAlnum(At(text, p - 1))
                        /\ StartsAt(text, RunEnd(DigitMask(text), p) + 1, W_jan)
                        /\ ~IsAlnum(At(text, RunEnd(DigitMask(text), p) + 5)) }
        timeStarts == { i \in AfterStarts(text) :
                        TimeGroups(text, SkipSpaces(text, i + 5)).meridiem # "none" }
        dayStarts == { i \in 1..Len(text) : StartsAt(text, i, W_yesterday) }
    IN  { [fragment |-> SubSeq(query, p, RunEnd(DigitMask(text), p) + 4),
           dt |-> LocalDay(NumVal(SubSeq(text, p, RunEnd(DigitMask(text), p))))] :
            p \in janStarts }
        \cup
        { [fragment |-> SubSeq(query, i, TimeGroups(text, SkipSpaces(text, i + 5)).stop),
           dt |-> LocalMidnight(now)
                    + Val(extract_time_filter(SubSeq(text, i, Len(text))))] :
            i \in timeStarts }
        \cup
        { [fragment |-> SubSeq(query, i, i + 8), dt |-> now - DayLen] : i \in dayStarts }

extract_date_range(query, now) ==
    LET text == Lower(query)
        parsed_dates == { r.dt : r \in { x \in search_dates(query, now) :
                            /\ ~looks_like_time_only(x.fragment)
                            /\ ~looks_like_noise_fragment(x.fragment) } }
    IN  IF LastStarts(text) # {} THEN LastRange(text, now)
        ELSE IF BetweenStarts(text) # {} THEN BetweenRange(text, now)
        ELSE IF parsed_dates # {}
             THEN normalize_range(Some(MinOf(parsed_dates)), Some(MaxOf(parsed_dates)))
        ELSE <<None, None>>

\* ------------------------------------------------------------ contacts

\* A contact is [contact_id, name, phone_number, country]; an absent name or
\* phone is the empty text and an absent country is "".

\* contact_lookup.get(contact_id): the contact as <<c>>, or None
Lookup(contacts, contact_id) ==
    IF \E i \in 1..Len(contacts) : contacts[i].contact_id = contact_id
    THEN Some(contacts[CHOOSE i \in 1..Len(contacts) : contacts[i].contact_id = contact_id])
    ELSE None

\* getattr(contact, "country", None)
CountryOf(contacts, contact_id) ==
    IF IsSome(Lookup(contacts, contact_id))
    THEN Val(Lookup(contacts, contact_id)).country ELSE ""

contact_tokens(contact) ==
    LET lowered == Lower(contact.name)
        phone == Lower(contact.phone_number)
        digits == SelectSeq(phone, IsDigit)
    IN  (IF contact.name # <<>>
         THEN {lowered} \cup { part \in Split(lowered) : Len(part) >= 3 } ELSE {})
        \cup
        (IF contact.phone_number # <<>>
         THEN {phone} \cup (IF Len(digits) >= 6 THEN {digits} ELSE {}) ELSE {})

detect_person_ids(query_lower, contacts) ==
    { contacts[i].contact_id : i \in
        { k \in 1..Len(contacts) :
            \E token \in contact_tokens(contacts[k]) :
                token # <<>> /\ Contains(query_lower, token) } }

match_contacts_by_name(names, contacts) ==
    LET lowered == { Lower(Strip(names[i])) : i \in 1..Len(names) } \ {<<>>}
        target_tokens == { AlnumTokens(n) \cup {n} : n \in lowered }
    IN  { contacts[i].contact_id : i \in
            { k \in 1..Len(contacts) :
                \E token_set \in target_tokens :
                    token_set \cap contact_tokens(contacts[k]) # {} } }

\* the tokens of the matched persons
PersonTokens(contacts, person_ids) ==
    UNION { IF IsSome(Lookup(contacts, id))
            THEN contact_tokens(Val(Lookup(contacts, id))) ELSE {} : id \in person_ids }

extract_topic_terms(query_lower, suspicious_terms, contacts, person_ids) ==
    ((((((AlnumTokens(query_lower) \ STOP_WORDS)
         \cup { suspicious_terms[i] : i \in 1..Len(suspicious_terms) })
        \ FOREIGN_TERMS) \ LOCATION_TERMS) \ CALL_TERMS) \ GRAPH_TERMS)
    \ PersonTokens(contacts, person_ids)

\* [term for term in SUSPICIOUS_TERMS if term in query_lower]
SuspiciousIn(query_lower) ==
    SelectSeq(SUSPICIOUS_TERMS, LAMBDA term : Contains(query_lower, term))

W_location == <<"l","o","c","a","t","i","o","n">>
W_call == <<"c","a","l","l">>

\* the category flags of lines 143-148
HeuristicLocations(query_lower) ==
    LOCATION_TERMS \cap Split(query_lower) # {} \/ Contains(query_lower, W_location)

\* the calls flag turned on by any word at all
HeuristicCallsAnyWord(query_lower) ==
    Split(query_lower) # {} \/ Contains(query_lower, W_call)

HeuristicCalls(query_lower) ==
    CALL_TERMS \cap Split(query_lower) # {} \/ Contains(query_lower, W_call)

HeuristicGraph(query_lower) == GRAPH_TERMS \cap Split(query_lower) # {}

HeuristicMessages(query_lower) ==
    LET first == IF HeuristicCalls(query_lower) \/ HeuristicLocations(query_lower)
                 THEN TRUE
                 ELSE MESSAGE_TERMS \cap Split(query_lower) # {}
    IN  IF ~first /\ ~HeuristicCalls(query_lower) /\ ~HeuristicLocations(query_lower)
        THEN TRUE ELSE first

HeuristicForeign(query_lower) == \E term \in FOREIGN_TERMS : Contains(query_lower, term)

\* ------------------------------------------------------------- planner

\* JSON values of the planner's reply
JNull == [t |-> "null"]
JBool(b) == [t |-> "bool", b |-> b]
JInt(n) == [t |-> "int", n |-> n]
JStr(s) == [t |-> "str", s |-> s]
JList(items) == [t |-> "list", items |-> items]

W_true == <<"t","r","u","e">>
W_yes == <<"y","e","s">>
W_false == <<"f","a","l","s","e">>
W_no == <<"n","o">>

\* _dict_to_plan._opt_bool: an Optional[bool]
opt_bool(value) ==
    IF value.t = "bool" THEN Some(value.b)
    ELSE IF value.t = "str" /\ Lower(Strip(value.s)) \in {W_true, W_yes} THEN Some(TRUE)
    ELSE IF value.t = "str" /\ Lower(Strip(value.s)) \in {W_false, W_no} THEN Some(FALSE)
    ELSE None

\* int(text) of a decimal literal, None where Python raises ValueError
ParseInt(text) ==
    LET s == Strip(text)
        signed == Len(s) >= 1 /\ s[1] \in {"-", "+"}
        body == IF signed THEN SubSeq(s, 2, Len(s)) ELSE s
    IN  IF body = <<>> \/ \E k \in 1..Len(body) : ~IsDigit(body[k]) THEN None
        ELSE IF signed /\ s[1] = "-" THEN Some(0 - NumVal(body))
        ELSE Some(NumVal(body))

\* _dict_to_plan._opt_int: a bool is an int to isinstance (True is 1)
opt_int(value) ==
    IF value.t = "int" THEN (IF value.n > 0 THEN Some(value.n) ELSE None)
    ELSE IF value.t = "bool" THEN (IF value.b THEN Some(1) ELSE None)
    ELSE IF value.t = "str" /\ IsSome(ParseInt(value.s)) /\ Val(ParseInt(value.s)) > 0
         THEN ParseInt(value.s)
    ELSE None

\* _dict_to_plan._list_str
list_str(value) ==
    IF value.t # "list" THEN <<>>
    ELSE LET kept == SelectSeq(value.items, LAMBDA item : item.t = "str" /\ Strip(item.s) # <<>>)
         IN  [i \in 1..Len(kept) |-> Strip(kept[i].s)]

\* _clean_str: an Optional[str]
clean_str(value) ==
    IF value.t = "str" /\ Strip(value.s) # <<>> THEN Some(Strip(value.s)) ELSE None

dict_to_plan(data) ==
    [include_messages |-> opt_bool(data.include_messages),
     include_calls |-> opt_bool(data.include_calls),
     include_locations |-> opt_bool(data.include_locations),
     include_graph |-> opt_bool(data.include_graph),
     foreign_only |-> opt_bool(data.foreign_only),
     person_names |-> list_str(data.person_names),
     topics |-> [i \in 1..Len(list_str(data.topics)) |-> Lower(list_str(data.topics)[i])],
     start_date |-> clean_str(data.start_date),
     end_date |-> clean_str(data.end_date),
     time_after |-> clean_str(data.time_after),
     result_limit |-> opt_int(data.result_limit),
     location_limit |-> opt_int(data.location_limit)]

\* a failed planner call answered with a plan that asks for calls only
plan_query_failed_plan(reply) ==
    IF reply.kind = "ok" THEN Some(dict_to_plan(reply.data))
    ELSE IF reply.kind = "failed"
    THEN Some(dict_to_plan(
            [include_messages |-> JBool(FALSE), include_calls |-> JBool(TRUE),
             include_locations |-> JNull, include_graph |-> JNull, foreign_only |-> JNull,
             person_names |-> JNull, topics |-> JNull, start_date |-> JNull,
             end_date |-> JNull, time_after |-> JNull, result_limit |-> JNull,
             location_limit |-> JNull]))
    ELSE None

\* plan_query: None without credentials or library and when the call or the
\* parse of its reply raises, else the plan of the reply
plan_query(reply) ==
    IF reply.kind = "ok" THEN Some(dict_to_plan(reply.data)) ELSE None

\* Optional[bool] truthiness
IsTrue(o) == IsSome(o) /\ Val(o)

\* a merge in which the plan can only switch a category on
MergeFlagsOnlyOn(c, plan) ==
    [c EXCEPT
        !.include_messages = IF IsTrue(plan.include_messages) THEN TRUE ELSE @,
        !.include_calls = IF IsTrue(plan.include_calls) THEN TRUE ELSE @,
        !.include_locations = IF IsTrue(plan.include_locations) THEN TRUE ELSE @,
        !.include_graph = IF IsTrue(plan.include_graph) THEN TRUE ELSE @,
        !.foreign_only = IF IsTrue(plan.foreign_only) THEN TRUE ELSE @]

\* lines 155-185 of answer(): the plan merged into the heuristic criteria
MergeFlags(c, plan) ==
    [c EXCEPT
        !.include_messages =
            IF IsSome(plan.include_messages) THEN Val(plan.include_messages) ELSE @,
        !.include_calls =
            IF IsSome(plan.include_calls) THEN Val(plan.include_calls) ELSE @,
        !.include_locations =
            IF IsSome(plan.include_locations) THEN Val(plan.include_locations) ELSE @,
        !.include_graph = IF IsTrue(plan.include_graph) THEN TRUE ELSE @,
        !.foreign_only = IF IsTrue(plan.foreign_only) THEN TRUE ELSE @]

MergePeopleAndTopics(c, plan, contacts) ==
    [c EXCEPT
        !.person_ids =
            IF plan.person_names # <<>>
            THEN @ \cup match_contacts_by_name(plan.person_names, contacts) ELSE @,
        !.topic_terms = @ \cup { Lower(plan.topics[i]) : i \in 1..Len(plan.topics) }]

MergeLimits(c, plan) ==
    LET uniform == IF IsSome(plan.result_limit)
                   THEN MaxOf({1, Val(plan.result_limit)}) ELSE c.message_limit
    IN  [c EXCEPT
            !.message_limit = IF IsSome(plan.result_limit) THEN uniform ELSE @,
            !.call_limit = IF IsSome(plan.result_limit) THEN uniform ELSE @,
            !.location_limit =
                IF IsSome(plan.location_limit) THEN MaxOf({1, Val(plan.location_limit)})
                ELSE IF IsSome(plan.result_limit) THEN uniform ELSE @]

MergeDates(c, plan, now) ==
    LET parsed_start == IF IsSome(plan.start_date)
                        THEN parse_date_fragment(Val(plan.start_date), now) ELSE None
        parsed_end == IF IsSome(plan.end_date)
                      THEN parse_date_fragment(Val(plan.end_date), now) ELSE None
    IN  IF IsSome(parsed_start) \/ IsSome(parsed_end)
        THEN [c EXCEPT !.date_range =
                normalize_range(OrElse(parsed_start, @[1]), OrElse(parsed_end, @[2]))]
        ELSE c

MergeTime(c, plan) ==
    IF IsSome(plan.time_after) /\ IsSome(parse_time_of_day(Val(plan.time_after)))
    THEN [c EXCEPT !.time_filter = parse_time_of_day(Val(plan.time_after))]
    ELSE c

\* the merged flags left as the plan made them
LeaveFlags(c) == c

\* if not (include_messages or include_calls or include_locations)
ForceMessages(c) ==
    IF ~(c.include_messages \/ c.include_calls \/ c.include_locations)
    THEN [c EXCEPT !.include_messages = TRUE] ELSE c

MergePlan(c, plan, contacts, now) ==
    IF IsSome(plan)
    THEN ForceMessages(
            MergeTime(
              MergeDates(
                MergeLimits(
                  MergePeopleAndTopics(MergeFlags(c, Val(plan)), Val(plan), contacts),
                  Val(plan)),
                Val(plan), now),
              Val(plan)))
    ELSE ForceMessages(c)

\* lines 130-152 of answer(): the heuristic Filter Criteria of a query
HeuristicCriteria(query, limit, contacts, now) ==
    LET query_lower == Lower(query)
        person_ids == detect_person_ids(query_lower, contacts)
        suspicious_terms == SuspiciousIn(query_lower)
    IN  [person_ids |-> person_ids,
         foreign_only |-> HeuristicForeign(query_lower),
         suspicious_terms |-> suspicious_terms,
         topic_terms |-> extract_topic_terms(query_lower, suspicious_terms, contacts, person_ids),
         time_filter |-> extract_time_filter(query_lower),
         date_range |-> extract_date_range(query, now),
         include_locations |-> HeuristicLocations(query_lower),
         include_calls |-> HeuristicCalls(query_lower),
         include_graph |-> HeuristicGraph(query_lower),
         include_messages |-> HeuristicMessages(query_lower),
         message_limit |-> limit,
         call_limit |-> limit,
         location_limit |-> limit]

\* ----------------------------------------------------------- retrieval

\* the first n elements of a sequence (seq[:n] for n >= 0)
Take(seq, n) == SubSeq(seq, 1, IF n < Len(seq) THEN n ELSE Len(seq))

RECURSIVE SortAsc(_)
\* ORDER BY timestamp, without desc()
SortAsc(rows) ==
    IF rows = {} THEN <<>>
    ELSE LET m == CHOOSE r \in rows : \A o \in rows :
                     o.timestamp > r.timestamp \/ (o.timestamp = r.timestamp /\ o.id >= r.id)
         IN  <<m>> \o SortAsc(rows \ {m})

RECURSIVE SortDesc(_)
\* ORDER BY timestamp DESC over a set of rows (ties by id), as a sequence
SortDesc(rows) ==
    IF rows = {} THEN <<>>
    ELSE LET m == CHOOSE r \in rows : \A o \in rows :
                     o.timestamp < r.timestamp \/ (o.timestamp = r.timestamp /\ o.id >= r.id)
         IN  <<m>> \o SortDesc(rows \ {m})

Rows(table) == { table[i] : i \in 1..Len(table) }

\* the WHERE clauses on the timestamp column: the stored text is compared with
\* the bound as the store renders it
SqlInRange(timestamp, date_range) ==
    /\ (IsSome(date_range[1]) => timestamp >= Val(date_range[1]))
    /\ (IsSome(date_range[2]) => timestamp <= Val(date_range[2]))

\* the rows are read back without a timezone; astimezone() takes them as
\* being in the zone of the machine, sys_offset seconds east of UTC
AsUtc(timestamp, sys_offset) == timestamp - sys_offset

\* datetime.time() of a stored row
ClockOf(timestamp) == timestamp % DayLen

\* _format_local_iso: the instant shown in the reporting timezone
format_local_iso(timestamp, sys_offset) == AsUtc(timestamp, sys_offset) + LocalOffset

\* the country check that takes any known country for a foreign one
AnyCountryPair(contacts, a, b) ==
    \E country \in {CountryOf(contacts, a), CountryOf(contacts, b)} : country # ""

\* any(country and country != "India" for country in countries)
ForeignPair(contacts, a, b) ==
    \E country \in {CountryOf(contacts, a), CountryOf(contacts, b)} :
        country # "" /\ country # "India"

\* the cutoff compared with < : a record at the cutoff passes
AtOrPastCutoff(timestamp, time_filter) ==
    ~(IsSome(time_filter) /\ ClockOf(timestamp) < Val(time_filter))

\* if time_filter and timestamp.time() <= time_filter: continue
PastCutoff(timestamp, time_filter) ==
    ~(IsSome(time_filter) /\ ClockOf(timestamp) <= Val(time_filter))

RECURSIVE ScanAll(_, _, _, _, _)
\* the filter loop without its break
ScanAll(rows, keep, limit, i, payload) ==
    IF i > Len(rows) THEN payload
    ELSE IF ~keep[i] THEN ScanAll(rows, keep, limit, i + 1, payload)
    ELSE ScanAll(rows, keep, limit, i + 1, Append(payload, rows[i]))

RECURSIVE Scan(_, _, _, _, _)
\* the filter loop of a retriever: rows in order, the ones kept appended,
\* left as soon as an append brings the payload to the limit
Scan(rows, keep, limit, i, payload) ==
    IF i > Len(rows) THEN payload
    ELSE IF ~keep[i] THEN Scan(rows, keep, limit, i + 1, payload)
    ELSE IF Len(payload) + 1 >= limit THEN Append(payload, rows[i])
    ELSE Scan(rows, keep, limit, i + 1, Append(payload, rows[i]))

NameOf(contacts, contact_id) ==
    IF IsSome(Lookup(contacts, contact_id)) THEN Val(Lookup(contacts, contact_id)).name ELSE <<>>

MessageItem(m, contacts, sys_offset) ==
    [message_id |-> m.id,
     timestamp |-> format_local_iso(m.timestamp, sys_offset),
     sender |-> NameOf(contacts, m.sender_id),
     receiver |-> NameOf(contacts, m.receiver_id)]

\* the in-memory filters without the content test
KeepMessageAnyContent(m, c, terms, contacts, sys_offset) ==
    /\ timestamp_in_range(AsUtc(m.timestamp, sys_offset), c.date_range)
    /\ PastCutoff(m.timestamp, c.time_filter)
    /\ (c.foreign_only => ForeignPair(contacts, m.sender_id, m.receiver_id))

\* the in-memory filters of a message row
KeepMessage(m, c, terms, contacts, sys_offset) ==
    /\ timestamp_in_range(AsUtc(m.timestamp, sys_offset), c.date_range)
    /\ PastCutoff(m.timestamp, c.time_filter)
    /\ (c.foreign_only => ForeignPair(contacts, m.sender_id, m.receiver_id))
    /\ (terms # {} =>
            \E term \in terms \cup SuspiciousSet : Contains(Lower(m.content), term))

\* the position of a row in the similarity ranking (the last one, as the
\* dict comprehension keeps it; len(ranking) if absent)
RankOf(message_ids, id) ==
    IF \E i \in 1..Len(message_ids) : message_ids[i] = id
    THEN MaxOf({ i \in 1..Len(message_ids) : message_ids[i] = id })
    ELSE Len(message_ids) + 1

\* the fetched records left in the order the store returned them
KeepFetchOrder(records, message_ids) == records

RECURSIVE SortByRank(_, _)
\* records.sort(key=rank): stable
SortByRank(records, message_ids) ==
    IF records = <<>> THEN <<>>
    ELSE LET best == MinOf({ RankOf(message_ids, records[i].id) : i \in 1..Len(records) })
             at == MinOf({ i \in 1..Len(records) : RankOf(message_ids, records[i].id) = best })
         IN  <<records[at]>> \o
             SortByRank(SubSeq(records, 1, at - 1) \o SubSeq(records, at + 1, Len(records)),
                        message_ids)

ItemsOf(rows, store, sys_offset) ==
    [i \in 1..Len(rows) |-> MessageItem(rows[i], store.contacts, sys_offset)]

enrich_messages(message_ids, store, c, sys_offset) ==
    IF message_ids = <<>> THEN <<>>
    ELSE LET fetched == SortDesc({ m \in Rows(store.messages) :
                            /\ \E i \in 1..Len(message_ids) : message_ids[i] = m.id
                            /\ SqlInRange(m.timestamp, c.date_range)
                            /\ (c.person_ids # {} =>
                                    m.sender_id \in c.person_ids \/ m.receiver_id \in c.person_ids) })
             records == SortByRank(fetched, message_ids)
             keep == [i \in 1..Len(records) |->
                        KeepMessage(records[i], c, c.topic_terms, store.contacts, sys_offset)]
         IN  ItemsOf(Scan(records, keep, c.message_limit, 1, <<>>), store, sys_offset)

WindowCap == 200

fallback_message_search(query_text, store, c, sys_offset) ==
    LET tokens == IF c.topic_terms # {} THEN c.topic_terms
                  ELSE extract_topic_terms(Lower(query_text), <<>>, store.contacts, c.person_ids)
        results == Take(SortDesc({ m \in Rows(store.messages) :
                            /\ SqlInRange(m.timestamp, c.date_range)
                            /\ (c.person_ids # {} =>
                                    m.sender_id \in c.person_ids \/ m.receiver_id \in c.person_ids) }),
                        WindowCap)
        keep == [i \in 1..Len(results) |->
                    KeepMessage(results[i], c, tokens, store.contacts, sys_offset)]
    IN  ItemsOf(Scan(results, keep, c.message_limit, 1, <<>>), store, sys_offset)

\* k=max(limit * 3, 10), and the index returns min(k, len(metadata)) records
VectorK(limit) == MaxOf({limit * 3, 10})

\* the similarity query without its except clause
try_vector_query_uncaught(vec, limit) ==
    IF vec.kind = "ok"
    THEN [raised |-> FALSE, candidates |-> Take(vec.ranked, VectorK(limit))]
    ELSE [raised |-> vec.kind = "error", candidates |-> <<>>]

\* lines 285-290 of _collect_messages, given what the similarity index did:
\* "unavailable" (no vector store), "error" (the query raised: caught and
\* logged) or "ok" with the ranked ids
try_vector_query(vec, limit) ==
    IF vec.kind = "ok"
    THEN [raised |-> FALSE, candidates |-> Take(vec.ranked, VectorK(limit))]
    ELSE [raised |-> FALSE, candidates |-> <<>>]

SimilarityResults(vec, store, c, sys_offset) ==
    LET candidates == try_vector_query(vec, c.message_limit).candidates
    IN  IF candidates # <<>> THEN enrich_messages(candidates, store, c, sys_offset)
        ELSE <<>>

\* the similarity results topped up with fallback rows
collect_messages_mixed(query_text, vec, store, c, sys_offset) ==
    Take(SimilarityResults(vec, store, c, sys_offset)
             \o fallback_message_search(query_text, store, c, sys_offset),
         c.message_limit)

collect_messages(query_text, vec, store, c, sys_offset) ==
    LET results == SimilarityResults(vec, store, c, sys_offset)
    IN  Take(IF results # <<>> THEN results
             ELSE fallback_message_search(query_text, store, c, sys_offset),
             c.message_limit)

CallItem(row, contacts, sys_offset) ==
    [call_id |-> row.id,
     timestamp |-> format_local_iso(row.timestamp, sys_offset),
     caller |-> NameOf(contacts, row.caller_id),
     callee |-> NameOf(contacts, row.callee_id)]

query_calls(store, c, sys_offset) ==
    LET calls == Take(SortDesc({ r \in Rows(store.calls) :
                        /\ SqlInRange(r.timestamp, c.date_range)
                        /\ (c.person_ids # {} =>
                                r.caller_id \in c.person_ids \/ r.callee_id \in c.person_ids) }),
                      WindowCap)
        keep == [i \in 1..Len(calls) |->
                    /\ timestamp_in_range(AsUtc(calls[i].timestamp, sys_offset), c.date_range)
                    /\ PastCutoff(calls[i].timestamp, c.time_filter)
                    /\ (c.foreign_only =>
                            ForeignPair(store.contacts, calls[i].caller_id, calls[i].callee_id))]
        payload == Scan(calls, keep, c.call_limit, 1, <<>>)
    IN  [i \in 1..Len(payload) |-> CallItem(payload[i], store.contacts, sys_offset)]

LocationItem(row, contacts, sys_offset) ==
    [location_id |-> row.id,
     timestamp |-> format_local_iso(row.timestamp, sys_offset),
     contact |-> NameOf(contacts, row.contact_id)]

\* the location query without its person clause
query_locations_any_contact(store, c, sys_offset) ==
    LET locations == Take(SortDesc({ r \in Rows(store.locations) :
                            SqlInRange(r.timestamp, c.date_range) }),
                          WindowCap)
        keep == [i \in 1..Len(locations) |->
                    /\ timestamp_in_range(AsUtc(locations[i].timestamp, sys_offset), c.date_range)
                    /\ PastCutoff(locations[i].timestamp, c.time_filter)]
        payload == Scan(locations, keep, c.location_limit, 1, <<>>)
    IN  [i \in 1..Len(payload) |-> LocationItem(payload[i], store.contacts, sys_offset)]

query_locations(store, c, sys_offset) ==
    LET locations == Take(SortDesc({ r \in Rows(store.locations) :
                            /\ SqlInRange(r.timestamp, c.date_range)
                            /\ (c.person_ids # {} => r.contact_id \in c.person_ids) }),
                          WindowCap)
        keep == [i \in 1..Len(locations) |->
                    /\ timestamp_in_range(AsUtc(locations[i].timestamp, sys_offset), c.date_range)
                    /\ PastCutoff(locations[i].timestamp, c.time_filter)]
        payload == Scan(locations, keep, c.location_limit, 1, <<>>)
    IN  [i \in 1..Len(payload) |-> LocationItem(payload[i], store.contacts, sys_offset)]

\* _graph_summary: a node of the graph is [label, neighbors]
graph_summary(graph, limit) ==
    LET nodes == Take(graph, limit * 2)
        keep == [i \in 1..Len(nodes) |-> nodes[i].neighbors # <<>>]
        kept == Scan(nodes, keep, limit, 1, <<>>)
    IN  [i \in 1..Len(kept) |->
            [label |-> kept[i].label, neighbors |-> Take(kept[i].neighbors, 5)]]

\* the order of Python's str comparison on lowercase words and digits
CharOrder ==
    <<"0","1","2","3","4","5","6","7","8","9","a","b","c","d","e","f","g","h","i","j","k",
      "l","m","n","o","p","q","r","s","t","u","v","w","x","y","z">>
CharRank(c) == CHOOSE i \in 1..Len(CharOrder) : CharOrder[i] = c

RECURSIVE LexLess(_, _)
LexLess(a, b) ==
    IF b = <<>> THEN FALSE
    ELSE IF a = <<>> THEN TRUE
    ELSE IF Head(a) # Head(b) THEN CharRank(Head(a)) < CharRank(Head(b))
    ELSE LexLess(Tail(a), Tail(b))

RECURSIVE Sorted(_)
\* sorted(set(...)): the words of a set in ascending order
Sorted(words) ==
    IF words = {} THEN <<>>
    ELSE LET least == CHOOSE w \in words : \A o \in words \ {w} : LexLess(w, o)
         IN  <<least>> \o Sorted(words \ {least})

\* the summary with its flagged terms in the order of the configured list
compose_summary_unsorted(messages, calls, locations, graph_insights, suspicious_terms) ==
    LET components ==
            (IF suspicious_terms # <<>>
             THEN <<[part |-> "Flagged terms", terms |-> suspicious_terms]>>
             ELSE <<>>)
            \o (IF messages # <<>>
                THEN <<[part |-> "relevant message(s)", n |-> Len(messages)]>> ELSE <<>>)
            \o (IF calls # <<>>
                THEN <<[part |-> "matching call(s)", n |-> Len(calls)]>> ELSE <<>>)
            \o (IF locations # <<>>
                THEN <<[part |-> "location record(s)", n |-> Len(locations)]>> ELSE <<>>)
            \o (IF graph_insights # <<>>
                THEN <<[part |-> "Graph highlights", first |-> graph_insights[1]]>> ELSE <<>>)
    IN  IF components = <<>> THEN <<[part |-> "No direct matches found in current dataset."]>>
        ELSE components

\* the summary with the fallback sentence forgotten
compose_summary_no_fallback(messages, calls, locations, graph_insights, suspicious_terms) ==
    (IF suspicious_terms # <<>>
     THEN <<[part |-> "Flagged terms",
             terms |-> Sorted({ suspicious_terms[i] : i \in 1..Len(suspicious_terms) })]>>
     ELSE <<>>)
    \o (IF messages # <<>>
        THEN <<[part |-> "relevant message(s)", n |-> Len(messages)]>> ELSE <<>>)
    \o (IF calls # <<>>
        THEN <<[part |-> "matching call(s)", n |-> Len(calls)]>> ELSE <<>>)
    \o (IF locations # <<>>
        THEN <<[part |-> "location record(s)", n |-> Len(locations)]>> ELSE <<>>)
    \o (IF graph_insights # <<>>
        THEN <<[part |-> "Graph highlights", first |-> graph_insights[1]]>> ELSE <<>>)

\* _compose_summary: the fragments of the summary, in order
compose_summary(messages, calls, locations, graph_insights, suspicious_terms) ==
    LET components ==
            (IF suspicious_terms # <<>>
             THEN <<[part |-> "Flagged terms",
                     terms |-> Sorted({ suspicious_terms[i] : i \in 1..Len(suspicious_terms) })]>>
             ELSE <<>>)
            \o (IF messages # <<>>
                THEN <<[part |-> "relevant message(s)", n |-> Len(messages)]>> ELSE <<>>)
            \o (IF calls # <<>>
                THEN <<[part |-> "matching call(s)", n |-> Len(calls)]>> ELSE <<>>)
            \o (IF locations # <<>>
                THEN <<[part |-> "location record(s)", n |-> Len(locations)]>> ELSE <<>>)
            \o (IF graph_insights # <<>>
                THEN <<[part |-> "Graph highlights", first |-> graph_insights[1]]>> ELSE <<>>)
    IN  IF components = <<>> THEN <<[part |-> "No direct matches found in current dataset."]>>
        ELSE components

\* ---------------------------------------------------------------- data

\* a stored timestamp: the wall clock of day n of the model's calendar
Wall(day, hour, minute) == day * DayLen + TimeOfDay(hour, minute)

SampleContacts ==
    <<[contact_id |-> 1, name |-> <<"R","a","j"," ","K","u","m","a","r">>,
       phone_number |-> <<"+","9","1","-","5","5","5","-","0","1","0","1">>,
       country |-> "India"],
      [contact_id |-> 2, name |-> <<"A","n","a">>, phone_number |-> <<>>,
       country |-> "UAE"],
      [contact_id |-> 3, name |-> <<>>,
       phone_number |-> <<"5","5","5","0","1","9","9">>, country |-> ""]>>

\* "send bitcoin now", "bitcoin cash ready", "meet at the route", "cash for raj";
\* receiver_id 0 is an absent receiver
SampleMessages ==
    <<[id |-> 1, sender_id |-> 2, receiver_id |-> 1, timestamp |-> Wall(5, 22, 30),
       content |-> <<"s","e","n","d"," ","b","i","t","c","o","i","n"," ","n","o","w">>],
      [id |-> 2, sender_id |-> 1, receiver_id |-> 3, timestamp |-> Wall(5, 23, 0),
       content |-> <<"b","i","t","c","o","i","n"," ","c","a","s","h"," ","r","e","a","d","y">>],
      [id |-> 3, sender_id |-> 1, receiver_id |-> 2, timestamp |-> Wall(4, 22, 0),
       content |-> <<"m","e","e","t"," ","a","t"," ","t","h","e"," ","r","o","u","t","e">>],
      [id |-> 4, sender_id |-> 3, receiver_id |-> 0, timestamp |-> Wall(4, 9, 30),
       content |-> <<"c","a","s","h"," ","f","o","r"," ","r","a","j">>]>>

SampleCalls ==
    <<[id |-> 1, caller_id |-> 1, callee_id |-> 2, timestamp |-> Wall(5, 22, 0)],
      [id |-> 2, caller_id |-> 2, callee_id |-> 1, timestamp |-> Wall(4, 23, 15)],
      [id |-> 3, caller_id |-> 1, callee_id |-> 3, timestamp |-> Wall(3, 8, 0)]>>

SampleLocations ==
    <<[id |-> 1, contact_id |-> 1, timestamp |-> Wall(5, 22, 0)],
      [id |-> 2, contact_id |-> 2, timestamp |-> Wall(4, 22, 45)],
      [id |-> 3, contact_id |-> 1, timestamp |-> Wall(3, 10, 0)]>>

SampleGraph ==
    <<[label |-> "Raj Kumar", neighbors |-> <<"Msg 2", "Msg 3", "Call 1", "Call 3", "Loc 1", "Loc 3">>],
      [label |-> "Ana", neighbors |-> <<"Msg 1", "Call 2", "Loc 2">>],
      [label |-> "5550199", neighbors |-> <<"Msg 4">>],
      [label |-> "Msg 1", neighbors |-> <<"Raj Kumar", "bitcoin">>],
      [label |-> "bitcoin", neighbors |-> <<>>]>>

\* before any ingestion: empty tables, no index file, no graph file
EmptyStore ==
    [contacts |-> <<>>, messages |-> <<>>, calls |-> <<>>, locations |-> <<>>,
     graph |-> <<>>, index_built |-> FALSE, graph_built |-> FALSE]

\* after ingest() of the sample export
SampleStore ==
    [contacts |-> SampleContacts, messages |-> SampleMessages, calls |-> SampleCalls,
     locations |-> SampleLocations, graph |-> SampleGraph,
     index_built |-> TRUE, graph_built |-> TRUE]

\* after an ingest() that wrote the tables and raised in VectorStore.build
UnindexedStore == [SampleStore EXCEPT !.index_built = FALSE, !.graph_built = FALSE]

Stores == {EmptyStore, SampleStore, UnindexedStore}

\* what the similarity index can answer over the sample messages: a ranking
\* of them all, the one message of an index built over part of the table,
\* nothing at all, or an error
Rankings == {<<3, 4, 2, 1>>, <<4>>}

VectorOutcomes(st) ==
    IF st.index_built
    THEN { [kind |-> "ok", ranked |-> r] : r \in Rankings \cup {<<>>} }
         \cup {[kind |-> "error"]}
    ELSE {[kind |-> "unavailable"]}

\* the zone of the machine: UTC or the reporting zone
SysOffsets == {0, LocalOffset}

\* the requests of the model: "tell me about Raj", "who called Ana",
\* "show me foreign crypto messages after 10 pm", "calls and location after 10 pm",
\* "network calls where last 2 days", "network from 5 jan to 3 jan",
\* "wallet cash on 4 jan", "show connections"
Queries ==
    {<<"t","e","l","l"," ","m","e"," ","a","b","o","u","t"," ","R","a","j">>,
     <<"w","h","o"," ","c","a","l","l","e","d"," ","A","n","a">>,
     <<"s","h","o","w"," ","m","e"," ","f","o","r","e","i","g","n"," ","c","r","y","p","t","o"," ","m","e","s","s","a","g","e","s"," ","a","f","t","e","r"," ","1","0"," ","p","m">>,
     <<"c","a","l","l","s"," ","a","n","d"," ","l","o","c","a","t","i","o","n"," ","a","f","t","e","r"," ","1","0"," ","p","m">>,
     <<"n","e","t","w","o","r","k"," ","c","a","l","l","s"," ","w","h","e","r","e"," ","l","a","s","t"," ","2"," ","d","a","y","s">>,
     <<"n","e","t","w","o","r","k"," ","f","r","o","m"," ","5"," ","j","a","n"," ","t","o"," ","3"," ","j","a","n">>,
     <<"w","a","l","l","e","t"," ","c","a","s","h"," ","o","n"," ","4"," ","j","a","n">>,
     <<"s","h","o","w"," ","c","o","n","n","e","c","t","i","o","n","s">>}

MaxLimit == 2
Limits == 1..MaxLimit

\* the replies of the planner
NullPlan ==
    [include_messages |-> JNull, include_calls |-> JNull, include_locations |-> JNull,
     include_graph |-> JNull, foreign_only |-> JNull, person_names |-> JNull,
     topics |-> JNull, start_date |-> JNull, end_date |-> JNull, time_after |-> JNull,
     result_limit |-> JNull, location_limit |-> JNull]

\* null, true, false, " No "
RawBools == {JNull, JBool(TRUE), JBool(FALSE), JStr(<<" ","N","o"," ">>)}

D_3jan == JStr(<<"3"," ","j","a","n">>)
D_4jan == JStr(<<"4"," ","j","a","n">>)
D_5jan == JStr(<<"5"," ","j","a","n">>)

PlanData ==
    { [NullPlan EXCEPT !.include_calls = a, !.include_locations = b] :
        a \in RawBools, b \in RawBools }
    \cup { [NullPlan EXCEPT !.include_messages = JBool(FALSE), !.include_calls = a,
                            !.include_locations = a] : a \in {JNull, JBool(FALSE)} }
    \cup { [NullPlan EXCEPT !.include_graph = a, !.foreign_only = a] :
            a \in {JBool(TRUE), JBool(FALSE)} }
    \cup { [NullPlan EXCEPT !.topics = JList(<<JStr(<<"C","a","l","l">>), JStr(<<"w","a","l","l","e","t">>)>>)],
           [NullPlan EXCEPT !.person_names = JList(<<JStr(<<"a","n","a">>), JInt(7)>>)] }
    \cup { [NullPlan EXCEPT !.result_limit = a, !.location_limit = b] :
            a \in {JNull, JInt(1), JStr(<<"2">>)}, b \in {JNull, JInt(1), JInt(0)} }
    \cup { [NullPlan EXCEPT !.start_date = a, !.end_date = b] :
            a \in {JNull, D_5jan, JStr(<<"s","o","o","n">>)}, b \in {JNull, D_3jan} }
    \cup { [NullPlan EXCEPT !.time_after = a] :
            a \in {JStr(<<"2","2",":","0","0">>), JStr(<<"1","0"," ","P","M">>),
                   JStr(<<"s","o","o","n">>)} }

PlannerReplies ==
    {[kind |-> "disabled"], [kind |-> "failed"]}
    \cup { [kind |-> "ok", data |-> d] : d \in PlanData }

\* the clock at the first request: noon of day 5 in the reporting zone
Now0 == LocalDay(5) + 12 * HourLen
TickLen == 12 * HourLen
MaxTicks == 1

\* ------------------------------------------------------- state machine

VARIABLES
    store,          \* the relational tables, the graph, and which files exist
    sys_offset,     \* the UTC offset of the machine's zone
    now,            \* the clock
    run,            \* 1 for the first request, 2 for its repetition
    pc,             \* where answer() is
    query, limit,   \* the request
    engine,         \* QueryEngine: which stores were loaded
    heur,           \* the Filter Criteria after heuristic extraction
    reply,          \* what the planner answered
    crit,           \* the Filter Criteria after the plan merge
    vec,            \* what the similarity index did
    stage,          \* which stage produced the messages
    ran,            \* the retrievers that ran
    messages, calls, locations, graph_insights, summary,
    error,          \* the collaborator whose failure left answer()
    prev            \* the response of the first request

vars ==
    <<store, sys_offset, now, run, pc, query, limit, engine, heur, reply, crit,
      vec, stage, ran, messages, calls, locations, graph_insights, summary, error, prev>>

NoCriteria == [include_messages |-> FALSE]

Init ==
    /\ store \in Stores
    /\ sys_offset \in SysOffsets
    /\ now = Now0
    /\ run = 1
    /\ pc = "idle"
    /\ query = <<>>
    /\ limit = 0
    /\ engine = [vector_store |-> FALSE, graph_store |-> FALSE]
    /\ heur = NoCriteria
    /\ reply = [kind |-> "none"]
    /\ crit = NoCriteria
    /\ vec = [kind |-> "none"]
    /\ stage = "none"
    /\ ran = {}
    /\ messages = <<>>
    /\ calls = <<>>
    /\ locations = <<>>
    /\ graph_insights = <<>>
    /\ summary = <<>>
    /\ error = "none"
    /\ prev = [run |-> 0]

\* the repetition is given what the first request was given
RequestInputs == IF run = 1 THEN Queries \X Limits ELSE {<<prev.query, prev.limit>>}
ReplyInputs == IF run = 1 THEN PlannerReplies ELSE {prev.reply}
VectorInputs ==
    IF ~engine.vector_store THEN {[kind |-> "unavailable"]}
    ELSE IF run = 1 \/ prev.vec.kind = "unavailable" THEN VectorOutcomes(store)
    ELSE {prev.vec}

\* app.query: a QueryEngine is built (_ensure_indexes) and answer() starts:
\* the contacts are read and the heuristics run (lines 130-152)
Request(q, lim) ==
    /\ pc = "idle"
    /\ query' = q
    /\ limit' = lim
    /\ engine' = [vector_store |-> store.index_built, graph_store |-> store.graph_built]
    /\ heur' = HeuristicCriteria(q, lim, store.contacts, now)
    /\ pc' = "plan"
    /\ UNCHANGED <<store, sys_offset, now, run, reply, crit, vec, stage, ran,
                   messages, calls, locations, graph_insights, summary, error, prev>>

\* plan_query and the merge (lines 154-185)
Plan(r) ==
    /\ pc = "plan"
    /\ reply' = r
    /\ crit' = MergePlan(heur, plan_query(r), store.contacts, now)
    /\ pc' = "messages"
    /\ UNCHANGED <<store, sys_offset, now, run, query, limit, engine, heur, vec, stage,
                   ran, messages, calls, locations, graph_insights, summary, error, prev>>

\* lines 192-202
CollectMessages(v) ==
    /\ pc = "messages"
    /\ IF ~crit.include_messages
       THEN pc' = "calls" /\ UNCHANGED <<vec, messages, stage, ran, error>>
       ELSE IF try_vector_query(v, crit.message_limit).raised
       THEN /\ vec' = v
            /\ error' = "similarity"
            /\ pc' = "aborted"
            /\ UNCHANGED <<messages, stage, ran>>
       ELSE /\ vec' = v
            /\ messages' = collect_messages(query, v, store, crit, sys_offset)
            /\ stage' = IF SimilarityResults(v, store, crit, sys_offset) # <<>>
                        THEN "similarity" ELSE "fallback"
            /\ ran' = ran \cup {"messages"}
            /\ pc' = "calls"
            /\ UNCHANGED error
    /\ UNCHANGED <<store, sys_offset, now, run, query, limit, engine, heur, reply, crit,
                   calls, locations, graph_insights, summary, prev>>

\* the calls retrieved, and those dated after the clock's reading left out
QueryCallsUntilNow ==
    /\ pc = "calls"
    /\ IF crit.include_calls
       THEN /\ calls' = SelectSeq(query_calls(store, crit, sys_offset),
                                  LAMBDA item : item.timestamp <= now + LocalOffset)
            /\ ran' = ran \cup {"calls"}
       ELSE UNCHANGED <<calls, ran>>
    /\ pc' = "locations"
    /\ UNCHANGED <<store, sys_offset, now, run, query, limit, engine, heur, reply, crit,
                   vec, stage, messages, locations, graph_insights, summary, error, prev>>

\* lines 204-212
QueryCalls ==
    /\ pc = "calls"
    /\ IF crit.include_calls
       THEN /\ calls' = query_calls(store, crit, sys_offset)
            /\ ran' = ran \cup {"calls"}
       ELSE UNCHANGED <<calls, ran>>
    /\ pc' = "locations"
    /\ UNCHANGED <<store, sys_offset, now, run, query, limit, engine, heur, reply, crit,
                   vec, stage, messages, locations, graph_insights, summary, error, prev>>

\* lines 214-221
QueryLocations ==
    /\ pc = "locations"
    /\ IF crit.include_locations
       THEN /\ locations' = query_locations(store, crit, sys_offset)
            /\ ran' = ran \cup {"locations"}
       ELSE UNCHANGED <<locations, ran>>
    /\ pc' = "graph"
    /\ UNCHANGED <<store, sys_offset, now, run, query, limit, engine, heur, reply, crit,
                   vec, stage, messages, calls, graph_insights, summary, error, prev>>

\* lines 223-233: the graph summary and the summary text; the response is returned
GraphAndSummary ==
    /\ pc = "graph"
    /\ LET insights == IF crit.include_graph /\ engine.graph_store
                       THEN graph_summary(store.graph, limit) ELSE <<>>
       IN  /\ graph_insights' = insights
           /\ ran' = IF crit.include_graph /\ engine.graph_store
                     THEN ran \cup {"graph"} ELSE ran
           /\ summary' = compose_summary(messages, calls, locations, insights,
                                         heur.suspicious_terms)
    /\ pc' = "done"
    /\ UNCHANGED <<store, sys_offset, now, run, query, limit, engine, heur, reply, crit,
                   vec, stage, messages, calls, locations, error, prev>>

\* a read of the relational store raises inside session_scope, which rolls
\* back and re-raises; nothing in answer() or its retrievers catches it
StoreReadFails ==
    /\ \/ pc = "messages" /\ crit.include_messages
       \/ pc = "calls" /\ crit.include_calls
       \/ pc = "locations" /\ crit.include_locations
    /\ error' = pc
    /\ pc' = "aborted"
    /\ UNCHANGED <<store, sys_offset, now, run, query, limit, engine, heur, reply, crit,
                   vec, stage, ran, messages, calls, locations, graph_insights, summary, prev>>

MessageIds(items) == [i \in 1..Len(items) |-> items[i].message_id]
CallIds(items) == [i \in 1..Len(items) |-> items[i].call_id]
LocationIds(items) == [i \in 1..Len(items) |-> items[i].location_id]

\* the bookkeeping between two requests: the first answer is remembered and
\* the second request starts from a clean response
Reissue(ticks) ==
    /\ prev' = [run |-> 1, query |-> query, limit |-> limit, reply |-> reply, vec |-> vec,
                engine |-> engine, now |-> now, date_range |-> crit.date_range,
                messages |-> MessageIds(messages), calls |-> CallIds(calls),
                locations |-> LocationIds(locations), graph_insights |-> graph_insights,
                summary |-> summary]
    /\ now' = now + ticks * TickLen
    /\ run' = 2
    /\ pc' = "idle"
    /\ stage' = "none"
    /\ ran' = {}
    /\ messages' = <<>>
    /\ calls' = <<>>
    /\ locations' = <<>>
    /\ graph_insights' = <<>>
    /\ summary' = <<>>
    /\ vec' = [kind |-> "none"]
    /\ heur' = NoCriteria
    /\ reply' = [kind |-> "none"]
    /\ crit' = NoCriteria
    /\ UNCHANGED <<sys_offset, query, limit, engine, error>>

\* the same request is sent again, at once or after the clock has moved on;
\* the tables, the index and the planner's reply are what they were
Repeat(ticks) ==
    /\ pc = "done"
    /\ run = 1
    /\ Reissue(ticks)
    /\ UNCHANGED store

\* app.trigger_ingest over the export already in the tables, once a request
\* has been answered without index and graph: ingest() writes the same rows,
\* builds the similarity index (lines 138-139) and saves the graph (line
\* 175); the same request is then sent again
Ingest ==
    /\ pc = "done"
    /\ run = 1
    /\ store = UnindexedStore
    /\ store' = SampleStore
    /\ Reissue(0)

Next ==
    \/ \E in \in RequestInputs : Request(in[1], in[2])
    \/ \E r \in ReplyInputs : Plan(r)
    \/ \E v \in VectorInputs : CollectMessages(v)
    \/ QueryCalls
    \/ QueryLocations
    \/ GraphAndSummary
    \/ StoreReadFails
    \/ Ingest
    \/ \E ticks \in 0..MaxTicks : Repeat(ticks)

Spec == Init /\ [][Next]_vars

\* -------------------------------------------------------------- claims

\* the stored row behind a returned item
RowOf(table, id) == CHOOSE r \in Rows(table) : r.id = id

Returned == pc = "done"

\* C1: each of the four result lists that answer() returns is no longer than
\* its configured limit: the request limit, the plan's result_limit for
\* messages and calls, the plan's location_limit (else result_limit) for
\* locations, and the request limit for the graph insights.
C1_ResultsWithinLimits ==
    Returned =>
        /\ Len(messages) <= crit.message_limit
        /\ Len(calls) <= crit.call_limit
        /\ Len(locations) <= crit.location_limit
        /\ Len(graph_insights) <= limit
        /\ crit.message_limit = IF reply.kind = "ok" /\ IsSome(opt_int(reply.data.result_limit))
                                THEN MaxOf({1, Val(opt_int(reply.data.result_limit))})
                                ELSE limit

\* all four lists are filled to their limits, the first three to a limit the
\* plan lowered
C1_FullLists ==
    /\ Returned
    /\ crit.message_limit < limit
    /\ Len(messages) = crit.message_limit
    /\ Len(calls) = crit.call_limit
    /\ Len(locations) = crit.location_limit
    /\ Len(graph_insights) = limit
    /\ Len(store.messages) > crit.message_limit

\* C2: with a time cutoff set, every returned message, call and location has
\* a time of day strictly after the cutoff: a record exactly at the cutoff is
\* never returned, in either stage of message retrieval.
C2_StrictCutoff ==
    Returned /\ IsSome(crit.time_filter) =>
        /\ \A i \in 1..Len(messages) :
               ClockOf(RowOf(store.messages, messages[i].message_id).timestamp)
                   > Val(crit.time_filter)
        /\ \A i \in 1..Len(calls) :
               ClockOf(RowOf(store.calls, calls[i].call_id).timestamp) > Val(crit.time_filter)
        /\ \A i \in 1..Len(locations) :
               ClockOf(RowOf(store.locations, locations[i].location_id).timestamp)
                   > Val(crit.time_filter)

\* each table holds a record exactly at the cutoff, and each retriever
\* returned something else
C2_RecordAtCutoff ==
    /\ Returned
    /\ IsSome(crit.time_filter)
    /\ stage = "similarity"
    /\ \A table \in {store.messages, store.calls, store.locations} :
           \E r \in Rows(table) : ClockOf(r.timestamp) = Val(crit.time_filter)
    /\ messages # <<>> /\ calls # <<>> /\ locations # <<>>

Ordered(date_range) ==
    IsSome(date_range[1]) /\ IsSome(date_range[2]) => Val(date_range[1]) <= Val(date_range[2])

\* C3: a date range with both bounds set has start <= end, after the
\* heuristic extraction and after the plan merge, also when the dates were
\* given in inverted order.
C3_RangeOrdered ==
    /\ pc # "idle" => Ordered(heur.date_range)
    /\ pc \notin {"idle", "plan"} => Ordered(crit.date_range)

\* the query gave its dates inverted ("from 5 jan to 3 jan") and so did the
\* plan (start_date "5 jan", end_date "3 jan"), and both bounds are set
C3_InvertedInputs ==
    /\ pc = "messages"
    /\ Contains(Lower(query), W_from)
    /\ IsSome(heur.date_range[1]) /\ IsSome(heur.date_range[2])
    /\ reply.kind = "ok"
    /\ reply.data.start_date = D_5jan
    /\ reply.data.end_date = D_3jan
    /\ IsSome(crit.date_range[1]) /\ IsSome(crit.date_range[2])
    /\ Val(crit.date_range[1]) < Val(crit.date_range[2])

\* C4: the topic_terms the retrievers consume hold no stop word, no
\* foreign, location, call or graph keyword and no token of a matched
\* person, after the heuristic extraction and after the plan merge.
C4_TopicTermsClean ==
    /\ pc # "idle" =>
          heur.topic_terms \cap
              (STOP_WORDS \cup FOREIGN_TERMS \cup LOCATION_TERMS \cup CALL_TERMS
               \cup GRAPH_TERMS \cup PersonTokens(store.contacts, heur.person_ids)) = {}
    /\ pc \notin {"idle", "plan"} =>
          crit.topic_terms \cap
              (STOP_WORDS \cup FOREIGN_TERMS \cup LOCATION_TERMS \cup CALL_TERMS
               \cup GRAPH_TERMS \cup PersonTokens(store.contacts, crit.person_ids)) = {}

ZeroCandidates ==
    vec.kind \in {"error", "unavailable"} \/ (vec.kind = "ok" /\ vec.ranked = <<>>)

\* C5: when the similarity search yields no candidate (an empty answer, an
\* error, no index), message retrieval leaves no error behind, the messages
\* come from the recency fallback, and there are at most message_limit of them.
C5_FallbackOnZeroCandidates ==
    ZeroCandidates =>
        /\ error # "similarity"
        /\ stage = "fallback"
        /\ Len(messages) <= crit.message_limit
        /\ messages = fallback_message_search(query, store, crit, sys_offset)

\* the similarity query raised and the fallback found messages
C5_ErrorThenFallback ==
    /\ Returned
    /\ vec.kind = "error"
    /\ stage = "fallback"
    /\ messages # <<>>

\* C6: no failure of one category's collaborator leaves answer() by an
\* exception: the request always completes.
C6_NoFailureAborts == pc # "aborted"

MessageKeyword(q) == MESSAGE_TERMS \cap Split(Lower(q)) # {}

\* C7: the heuristics enable messages only if a message keyword matched or
\* neither calls nor locations matched.
C7_MessagesOnlyByKeywordOrDefault ==
    pc = "plan" /\ heur.include_messages =>
        MessageKeyword(query) \/ (~heur.include_calls /\ ~heur.include_locations)

NoCategoryKeyword(q) ==
    /\ Split(Lower(q)) \cap (LOCATION_TERMS \cup CALL_TERMS \cup GRAPH_TERMS) = {}
    /\ ~Contains(Lower(q), W_location)
    /\ ~Contains(Lower(q), W_call)

NoPlan == reply.kind \in {"disabled", "failed"}

\* C8: a query with no location, call or graph keyword, and no plan, has
\* messages as its only enabled category: the other three retrievers do not
\* run and their lists are empty.
C8_OnlyMessagesByDefault ==
    pc \notin {"idle", "plan"} /\ NoPlan /\ NoCategoryKeyword(query) =>
        /\ crit.include_messages
        /\ ~crit.include_calls /\ ~crit.include_locations /\ ~crit.include_graph
        /\ ran \subseteq {"messages"}
        /\ calls = <<>> /\ locations = <<>> /\ graph_insights = <<>>

\* such a request returned, with messages found
C8_PlainQueryAnswered ==
    /\ Returned
    /\ NoPlan
    /\ NoCategoryKeyword(query)
    /\ ran = {"messages"}
    /\ messages # <<>>
    /\ Len(store.calls) > 0

PlanField(name) == IF reply.kind = "ok" THEN reply.data[name] ELSE JNull

\* C9: a true or false that the plan gives for include_calls or
\* include_locations is the final flag, whatever the heuristics said; with
\* the field left null, or no plan, the heuristic flag is kept.
C9_PlanBooleanOverrides ==
    pc \notin {"idle", "plan"} =>
        /\ PlanField("include_calls").t = "bool" =>
               crit.include_calls = PlanField("include_calls").b
        /\ PlanField("include_calls").t = "null" =>
               crit.include_calls = heur.include_calls
        /\ PlanField("include_locations").t = "bool" =>
               crit.include_locations = PlanField("include_locations").b
        /\ PlanField("include_locations").t = "null" =>
               crit.include_locations = heur.include_locations

\* the heuristics enabled calls, the plan said false, and no call was read
C9_HeuristicTruePlanFalse ==
    /\ Returned
    /\ heur.include_calls
    /\ PlanField("include_calls") = JBool(FALSE)
    /\ ~crit.include_calls
    /\ "calls" \notin ran
    /\ PlanField("include_locations") = JNull
    /\ heur.include_locations /\ crit.include_locations

SameAnswer ==
    /\ MessageIds(messages) = prev.messages
    /\ CallIds(calls) = prev.calls
    /\ LocationIds(locations) = prev.locations
    /\ graph_insights = prev.graph_insights
    /\ summary = prev.summary

\* C10 as stated: the same query and limit over the same tables, index,
\* ranking and planner reply give the same id sequences and the same summary.
C10_SameAnswerOnRepeat == run = 2 /\ Returned /\ engine = prev.engine => SameAnswer

\* C10: the same query and limit over the same tables, index, ranking and
\* planner reply give the same id sequences and the same summary whenever the
\* date range resolved against the clock is the same in both runs.
C10_SameAnswerForSameRange ==
    run = 2 /\ Returned /\ engine = prev.engine /\ crit.date_range = prev.date_range =>
        SameAnswer

\* the request is repeated after the clock moved, with a date range that the
\* move did not change, and records were found both times
C10_RepeatedLater ==
    /\ run = 2 /\ Returned
    /\ now # prev.now
    /\ IsSome(crit.date_range[1])
    /\ crit.date_range = prev.date_range
    /\ messages # <<>> /\ calls # <<>>

AllListsEmpty ==
    messages = <<>> /\ calls = <<>> /\ locations = <<>> /\ graph_insights = <<>>

FallbackSentence == <<[part |-> "No direct matches found in current dataset."]>>

\* C11 as stated: over an empty dataset every query returns four empty lists
\* and the fallback sentence as its summary.
C11_EmptyDatasetFallback ==
    Returned /\ store = EmptyStore => AllListsEmpty /\ summary = FallbackSentence

\* C11: over an empty dataset every query returns four empty lists; the
\* summary is the fallback sentence if the query holds no suspicious term,
\* and the flagged-terms fragment alone if it holds one.
C11_EmptyDatasetSummary ==
    Returned /\ store = EmptyStore =>
        /\ AllListsEmpty
        /\ SuspiciousIn(Lower(query)) = <<>> => summary = FallbackSentence
        /\ SuspiciousIn(Lower(query)) # <<>> =>
               Len(summary) = 1 /\ summary[1].part = "Flagged terms"

\* a query for calls, locations and the graph answered over the empty
\* dataset with the fallback sentence
C11_EmptyDatasetAnswered ==
    /\ Returned
    /\ store = EmptyStore
    /\ crit.include_messages /\ crit.include_calls /\ crit.include_locations
    /\ crit.include_graph
    /\ summary = FallbackSentence

\* C12: a query that holds a suspicious term has that term in its summary,
\* in the flagged-terms fragment, which comes first and lists its terms in
\* ascending order without repetition, whatever was retrieved.
C12_SuspiciousTermFlagged ==
    Returned =>
        \A term \in SuspiciousSet :
            Contains(Lower(query), term) =>
                /\ summary[1].part = "Flagged terms"
                /\ \E i \in 1..Len(summary[1].terms) : summary[1].terms[i] = term
                /\ \A i \in 1..(Len(summary[1].terms) - 1) :
                       LexLess(summary[1].terms[i], summary[1].terms[i + 1])

\* two terms flagged, in the order opposite to the configured list's, over a
\* dataset that gave no record
C12_TwoTermsNothingFound ==
    /\ Returned
    /\ Len(SuspiciousIn(Lower(query))) = 2
    /\ ~LexLess(SuspiciousIn(Lower(query))[1], SuspiciousIn(Lower(query))[2])
    /\ Len(summary) = 1
    /\ Len(summary[1].terms) = 2
    /\ store # EmptyStore

RECURSIVE IsSubsequence(_, _)
IsSubsequence(a, b) ==
    IF a = <<>> THEN TRUE
    ELSE IF b = <<>> THEN FALSE
    ELSE IF Head(a) = Head(b) THEN IsSubsequence(Tail(a), Tail(b))
    ELSE IsSubsequence(a, Tail(b))

\* C13: messages that come from the similarity stage are returned in the
\* order of the similarity ranking: their ids are a subsequence of the
\* ranked candidate ids.
C13_RankOrderPreserved ==
    stage = "similarity" =>
        IsSubsequence(MessageIds(messages), Take(vec.ranked, VectorK(crit.message_limit)))

\* two messages returned from the similarity stage, the older one first
C13_OlderRankedFirst ==
    /\ Returned
    /\ stage = "similarity"
    /\ Len(messages) >= 2
    /\ RowOf(store.messages, messages[1].message_id).timestamp
           < RowOf(store.messages, messages[2].message_id).timestamp

\* no item is older than the one listed after it
NewestFirst(items) ==
    \A i \in 1..(Len(items) - 1) : items[i].timestamp >= items[i + 1].timestamp

\* C14: the messages of the fallback stage, and the calls and the locations
\* always, are listed by timestamp descending.
C14_NewestFirst ==
    /\ stage = "fallback" => NewestFirst(messages)
    /\ NewestFirst(calls)
    /\ NewestFirst(locations)

\* two or more fallback messages, calls and locations returned
C14_SeveralOfEach ==
    /\ Returned
    /\ stage = "fallback"
    /\ Len(messages) >= 2 /\ Len(calls) >= 2 /\ Len(locations) >= 2
    /\ messages[1].timestamp > messages[2].timestamp
    /\ messages[1].message_id < messages[2].message_id

\* ------------------------------------------------ the "last N <unit>" rule

\* queries built around "last N <unit>": alone, after a from/to clause
\* ("from 5 jan to 3 jan "), after a free-text date ("on 4 jan "); the word
\* as "last " or "Last  "; N as 0, 2 or 14; the six spellings of the unit
LastPrefixes ==
    {<<>>,
     <<"f","r","o","m"," ","5"," ","j","a","n"," ","t","o"," ","3"," ","j","a","n"," ">>,
     <<"o","n"," ","4"," ","j","a","n"," ">>}
LastWords == {<<"l","a","s","t"," ">>, <<"L","a","s","t"," "," ">>}
LastCounts ==
    {[n |-> 0, text |-> <<"0">>], [n |-> 2, text |-> <<"2">>],
     [n |-> 14, text |-> <<"1","4">>]}
LastUnits ==
    {[text |-> <<"d","a","y">>, days |-> 1], [text |-> <<"d","a","y","s">>, days |-> 1],
     [text |-> <<"w","e","e","k">>, days |-> 7], [text |-> <<"w","e","e","k","s">>, days |-> 7],
     [text |-> <<"m","o","n","t","h">>, days |-> 30], [text |-> <<"m","o","n","t","h","s">>, days |-> 30]}
LastQuery(p, w, c, u) == p \o w \o c.text \o <<" ">> \o u.text
LastQueries ==
    { LastQuery(p, w, c, u) : p \in LastPrefixes, w \in LastWords,
                              c \in LastCounts, u \in LastUnits }

\* the clock readings at which such a query is asked
Clocks == { Now0 + k * TickLen : k \in 0..MaxTicks }

InitDates ==
    /\ store \in {EmptyStore, SampleStore}
    /\ sys_offset = 0
    /\ now \in Clocks
    /\ run = 1
    /\ pc = "idle"
    /\ query = <<>>
    /\ limit = 0
    /\ engine = [vector_store |-> FALSE, graph_store |-> FALSE]
    /\ heur = NoCriteria
    /\ reply = [kind |-> "none"]
    /\ crit = NoCriteria
    /\ vec = [kind |-> "none"]
    /\ stage = "none"
    /\ ran = {}
    /\ messages = <<>>
    /\ calls = <<>>
    /\ locations = <<>>
    /\ graph_insights = <<>>
    /\ summary = <<>>
    /\ error = "none"
    /\ prev = [run |-> 0]

NextDates == \E q \in LastQueries : Request(q, MaxLimit)

SpecDates == InitDates /\ [][NextDates]_vars

\* C15: a query with "last N <unit>" has the date range from local midnight
\* of the day N*u days before now to the local end of today, with u = 1 for
\* day(s), 7 for week(s), 30 for month(s), also when a from/to clause or a
\* date stands in the query.
C15_LastWindow ==
    pc = "plan" =>
        \A p \in LastPrefixes, w \in LastWords, c \in LastCounts, u \in LastUnits :
            query = LastQuery(p, w, c, u) =>
                heur.date_range =
                    <<Some(LocalMidnight(now - c.n * u.days * DayLen)),
                      Some(LocalEndOfDay(now))>>

\* "from 5 jan to 3 jan Last  2 months" asked: the range is 61 days long
C15_MonthsAfterFromTo ==
    /\ pc = "plan"
    /\ Contains(query, W_from)
    /\ Contains(Lower(query), W_month)
    /\ query # Lower(query)
    /\ IsSome(heur.date_range[1])
    /\ Val(heur.date_range[2]) - Val(heur.date_range[1]) = 61 * DayLen - 1

\* C16: a true or false that the plan gives for include_graph is the final
\* graph flag, whatever the heuristics said; with the field left null, or
\* no plan, the heuristic flag is kept.
C16_PlanGraphOverrides ==
    pc \notin {"idle", "plan"} =>
        /\ PlanField("include_graph").t = "bool" =>
               crit.include_graph = PlanField("include_graph").b
        /\ PlanField("include_graph").t = "null" =>
               crit.include_graph = heur.include_graph

\* a date fragment of the plan, as the merge parses it
PlanDate(name) ==
    IF IsSome(clean_str(PlanField(name)))
    THEN parse_date_fragment(Val(clean_str(PlanField(name))), now) ELSE None

\* C17: when only one of the plan's start_date and end_date parses, the
\* merge replaces that bound of the date range and leaves the other bound as
\* the heuristics set it, unrestricted included.
C17_OtherBoundKept ==
    pc \notin {"idle", "plan"} =>
        /\ IsSome(PlanDate("start_date")) /\ ~IsSome(PlanDate("end_date")) =>
               /\ crit.date_range[1] = Some(LocalMidnight(Val(PlanDate("start_date"))))
               /\ crit.date_range[2] = heur.date_range[2]
        /\ IsSome(PlanDate("end_date")) /\ ~IsSome(PlanDate("start_date")) =>
               /\ crit.date_range[2] = Some(LocalEndOfDay(Val(PlanDate("end_date"))))
               /\ crit.date_range[1] = heur.date_range[1]

\* dates to normalize: two days ago, now, 3 jan and 5 jan
DateInputs == {now - 2 * DayLen, now, LocalDay(3), LocalDay(5) + HourLen}

\* C18: normalizing two dates gives the same range in either order: from
\* local midnight of the earlier day to the local end of the later day.
C18_NormalizeSymmetric ==
    \A a \in DateInputs, b \in DateInputs :
        /\ normalize_range(Some(a), Some(b)) = normalize_range(Some(b), Some(a))
        /\ normalize_range(Some(a), Some(b)) =
               <<Some(LocalMidnight(MinOf({a, b}))), Some(LocalEndOfDay(MaxOf({a, b})))>>

\* the contact exists and its country is set and is not India
ForeignContact(contact_id) ==
    \E i \in 1..Len(store.contacts) :
        /\ store.contacts[i].contact_id = contact_id
        /\ store.contacts[i].country \notin {"", "India"}

\* C19: with foreign_only set, every returned message, from either stage,
\* and every returned call has a participant whose country is set and is
\* not India.
C19_ForeignOnlyRecords ==
    Returned /\ crit.foreign_only =>
        /\ \A i \in 1..Len(messages) :
               LET m == RowOf(store.messages, messages[i].message_id)
               IN  ForeignContact(m.sender_id) \/ ForeignContact(m.receiver_id)
        /\ \A i \in 1..Len(calls) :
               LET r == RowOf(store.calls, calls[i].call_id)
               IN  ForeignContact(r.caller_id) \/ ForeignContact(r.callee_id)

\* messages and calls returned under foreign_only while the tables hold a
\* message and a call between contacts none of which is foreign
C19_DomesticLeftOut ==
    /\ Returned
    /\ crit.foreign_only
    /\ messages # <<>> /\ calls # <<>>
    /\ \E m \in Rows(store.messages) :
           ~ForeignContact(m.sender_id) /\ ~ForeignContact(m.receiver_id)
    /\ \E r \in Rows(store.calls) :
           ~ForeignContact(r.caller_id) /\ ~ForeignContact(r.callee_id)
    /\ crit.person_ids = {}

\* C20: with foreign_only set, every returned location belongs to a contact
\* whose country is set and is not India.
C20_ForeignOnlyLocations ==
    Returned /\ crit.foreign_only =>
        \A i \in 1..Len(locations) :
            ForeignContact(RowOf(store.locations, locations[i].location_id).contact_id)

\* C21: when the message retrieval has run, the fallback stage ran exactly
\* when the similarity stage gave no result after filtering; otherwise the
\* messages returned are the similarity stage's results and nothing else.
C21_FallbackOnlyOnEmpty ==
    (pc = "calls" /\ "messages" \in ran) =>
        LET similar == SimilarityResults(vec, store, crit, sys_offset)
        IN  /\ stage = "fallback" <=> similar = <<>>
            /\ similar # <<>> => messages = similar
            /\ similar = <<>> =>
                   messages = fallback_message_search(query, store, crit, sys_offset)

\* the index gave a candidate, the filters dropped it, and the fallback
\* found messages
C21_CandidatesAllFiltered ==
    /\ pc = "calls"
    /\ vec.kind = "ok" /\ vec.ranked # <<>>
    /\ stage = "fallback"
    /\ messages # <<>>

\* the instant an item of the response shows: its timestamp is written in the
\* reporting timezone
InstantOf(item) == item.timestamp - LocalOffset

ItemsReturned ==
    {messages[i] : i \in 1..Len(messages)}
        \cup {calls[i] : i \in 1..Len(calls)}
        \cup {locations[i] : i \in 1..Len(locations)}

\* C22: with a date range set, the timestamp of every message, call and
\* location returned lies between its start and its end, both inclusive,
\* whichever stage the messages came from.
C22_ReturnedWithinRange ==
    Returned =>
        \A item \in ItemsReturned :
            /\ (IsSome(crit.date_range[1]) => Val(crit.date_range[1]) <= InstantOf(item))
            /\ (IsSome(crit.date_range[2]) => InstantOf(item) <= Val(crit.date_range[2]))

\* a range with both bounds, similarity messages and calls returned, and a
\* stored message outside the range
C22_RangeFiltered ==
    /\ Returned
    /\ IsSome(crit.date_range[1]) /\ IsSome(crit.date_range[2])
    /\ stage = "similarity"
    /\ messages # <<>> /\ calls # <<>>
    /\ \E m \in Rows(store.messages) :
           ~timestamp_in_range(AsUtc(m.timestamp, sys_offset), crit.date_range)

\* C23: with a time cutoff set, no item of the response shows a time of day
\* at or before the cutoff: the time of day compared is the one of the
\* timestamp shown, in the reporting timezone.
C23_ShownClockPastCutoff ==
    (Returned /\ IsSome(crit.time_filter)) =>
        \A item \in ItemsReturned : ClockOf(item.timestamp) > Val(crit.time_filter)

\* ------------------------------------------------ the "after <time>" rule

\* queries built around "after H[:MM] [am|pm]": the hour written with one or
\* two digits, the minute absent or two digits up to 99, the meridiem absent
\* or written with or without spaces, in either case
TimePrefixes ==
    {<<"a","f","t","e","r"," ">>,
     <<"C","a","l","l","s"," ","A","f","t","e","r"," "," ">>}
TimeHours ==
    {[n |-> 0, text |-> <<"0">>], [n |-> 5, text |-> <<"5">>],
     [n |-> 5, text |-> <<"0","5">>], [n |-> 9, text |-> <<"9">>],
     [n |-> 12, text |-> <<"1","2">>], [n |-> 13, text |-> <<"1","3">>],
     [n |-> 23, text |-> <<"2","3">>], [n |-> 24, text |-> <<"2","4">>],
     [n |-> 36, text |-> <<"3","6">>], [n |-> 99, text |-> <<"9","9">>]}
TimeMinutes ==
    {[n |-> 0, text |-> <<>>], [n |-> 0, text |-> <<":","0","0">>],
     [n |-> 30, text |-> <<":","3","0">>], [n |-> 59, text |-> <<":","5","9">>],
     [n |-> 60, text |-> <<":","6","0">>], [n |-> 99, text |-> <<":","9","9">>]}
TimeSuffixes ==
    {[meridiem |-> "none", text |-> <<>>],
     [meridiem |-> "am", text |-> <<" ","a","m">>], [meridiem |-> "am", text |-> <<"a","m">>],
     [meridiem |-> "pm", text |-> <<" ","p","m">>], [meridiem |-> "pm", text |-> <<"p","m">>],
     [meridiem |-> "pm", text |-> <<" "," ","p","m">>],
     [meridiem |-> "pm", text |-> <<" ","P","M">>]}
TimeText(h, m, s) == h.text \o m.text \o s.text
TimeQueries ==
    { p \o TimeText(h, m, s) :
        p \in TimePrefixes, h \in TimeHours, m \in TimeMinutes, s \in TimeSuffixes }

\* the planner gives back a time phrase made of pieces of the query, or a
\* word that is no time, or no time at all
TimeReplies(q) ==
    { [kind |-> "ok", data |-> [NullPlan EXCEPT !.time_after = a]] :
        a \in { JStr(TimeText(h, m, s)) :
                    h \in { x \in TimeHours : Contains(q, x.text) },
                    m \in { x \in TimeMinutes : Contains(q, x.text) },
                    s \in { x \in TimeSuffixes : Contains(q, x.text) } }
              \cup {JStr(<<"s","o","o","n">>), JNull} }

InitTimes ==
    /\ store = SampleStore
    /\ sys_offset = 0
    /\ now = Now0
    /\ run = 1
    /\ pc = "idle"
    /\ query = <<>>
    /\ limit = 0
    /\ engine = [vector_store |-> FALSE, graph_store |-> FALSE]
    /\ heur = NoCriteria
    /\ reply = [kind |-> "none"]
    /\ crit = NoCriteria
    /\ vec = [kind |-> "none"]
    /\ stage = "none"
    /\ ran = {}
    /\ messages = <<>>
    /\ calls = <<>>
    /\ locations = <<>>
    /\ graph_insights = <<>>
    /\ summary = <<>>
    /\ error = "none"
    /\ prev = [run |-> 0]

NextTimes ==
    \/ \E q \in TimeQueries : Request(q, MaxLimit)
    \/ \E r \in TimeReplies(query) : Plan(r)

SpecTimes == InitTimes /\ [][NextTimes]_vars

\* the hour of the 24-hour clock that H and the meridiem stand for
HourOfDay(h, s) ==
    (IF s.meridiem = "pm" /\ h.n # 12 THEN h.n + 12
     ELSE IF s.meridiem = "am" /\ h.n = 12 THEN 0
     ELSE h.n) % 24

\* C24: a query with "after H[:MM] [am|pm]", H up to 99 and MM up to 99, gets
\* a cutoff that is a time of the day: the hour is H + 12 for pm unless H is
\* 12, 0 for 12 am, H otherwise, modulo 24, and the minute is MM cut at 59.
C24_CutoffOfPhrase ==
    pc = "plan" =>
        \A p \in TimePrefixes, h \in TimeHours, m \in TimeMinutes, s \in TimeSuffixes :
            query = p \o TimeText(h, m, s) =>
                /\ heur.time_filter =
                       Some(TimeOfDay(HourOfDay(h, s), IF m.n > 59 THEN 59 ELSE m.n))
                /\ Val(heur.time_filter) \in 0..(DayLen - 1)

\* "Calls After  36:99pm" asked: the cutoff is 00:59
C24_HourWrappedMinuteCut ==
    /\ pc = "plan"
    /\ Contains(query, <<"3","6",":","9","9","p","m">>)
    /\ heur.time_filter = Some(TimeOfDay(0, 59))

\* C25: the plan's time string "H[:MM] [am|pm]" gives the time that the
\* heuristics take from "after H[:MM] [am|pm]", and a plan string that is no
\* time leaves the heuristic cutoff as it was.
C25_PlanTimeAsHeuristic ==
    (pc = "messages" /\ PlanField("time_after").t = "str") =>
        /\ \A h \in TimeHours, m \in TimeMinutes, s \in TimeSuffixes :
               PlanField("time_after").s = TimeText(h, m, s) =>
                   crit.time_filter =
                       extract_time_filter(Lower(W_after \o <<" ">> \o TimeText(h, m, s)))
        /\ parse_time_of_day(PlanField("time_after").s) = None =>
               crit.time_filter = heur.time_filter

\* the plan said "9 pm" for a query with "after 9:30 pm": the merged cutoff
\* is 21:00, not the query's 21:30
C25_PlanTimeReplaces ==
    /\ pc = "messages"
    /\ PlanField("time_after") = JStr(<<"9"," ","p","m">>)
    /\ crit.time_filter = Some(TimeOfDay(21, 0))
    /\ heur.time_filter = Some(TimeOfDay(21, 30))

\* C26: with the planner disabled, or its call or the parse of its reply
\* failing, the request goes on with the heuristic criteria as they are, and
\* the lists of the response are those the heuristic criteria give.
C26_NoPlanHeuristicsOnly ==
    (pc \notin {"idle", "plan"} /\ NoPlan) =>
        /\ crit = heur
        /\ Returned =>
               /\ messages = IF heur.include_messages
                             THEN collect_messages(query, vec, store, heur, sys_offset)
                             ELSE <<>>
               /\ calls = IF heur.include_calls
                          THEN query_calls(store, heur, sys_offset) ELSE <<>>
               /\ locations = IF heur.include_locations
                              THEN query_locations(store, heur, sys_offset) ELSE <<>>

\* the planner failed on a query about calls, and the calls came back
C26_PlannerFailedAnswered ==
    /\ Returned
    /\ reply.kind = "failed"
    /\ heur.include_calls
    /\ calls # <<>> /\ messages # <<>>

\* C27: an index or a graph found not built by one request is consulted by
\* no later request, even if ingestion built it in between.
C27_DisabledForGood ==
    (run = 2 /\ pc # "idle") =>
        /\ ~prev.engine.vector_store => ~engine.vector_store /\ stage # "similarity"
        /\ ~prev.engine.graph_store => ~engine.graph_store /\ "graph" \notin ran

\* C28: with persons in the criteria, every message returned has one of
\* them as sender or receiver, every call as caller or callee, and every
\* location belongs to one of them, whichever stage the messages came from.
C28_OnlyThePersons ==
    (Returned /\ crit.person_ids # {}) =>
        /\ \A i \in 1..Len(messages) :
               LET m == RowOf(store.messages, messages[i].message_id)
               IN  m.sender_id \in crit.person_ids \/ m.receiver_id \in crit.person_ids
        /\ \A i \in 1..Len(calls) :
               LET r == RowOf(store.calls, calls[i].call_id)
               IN  r.caller_id \in crit.person_ids \/ r.callee_id \in crit.person_ids
        /\ \A i \in 1..Len(locations) :
               RowOf(store.locations, locations[i].location_id).contact_id \in crit.person_ids

\* a person named by the plan only: messages, calls and locations of that
\* person came back, and a location of somebody else is stored
C28_PersonFromPlan ==
    /\ Returned
    /\ heur.person_ids = {} /\ crit.person_ids # {}
    /\ messages # <<>> /\ calls # <<>> /\ locations # <<>>
    /\ \E r \in Rows(store.locations) : r.contact_id \notin crit.person_ids

\* C29: after the plan is merged at least one of messages, calls and
\* locations is enabled: if the merged flags are all false, messages are
\* enabled again, even when the plan itself turned them off.
C29_SomeCategoryEnabled ==
    pc \notin {"idle", "plan"} =>
        /\ crit.include_messages \/ crit.include_calls \/ crit.include_locations
        /\ (~crit.include_calls /\ ~crit.include_locations) => crit.include_messages

\* a query about calls, a plan that turns messages, calls and locations off:
\* messages alone are searched
C29_PlanTurnedAllOff ==
    /\ Returned
    /\ heur.include_calls
    /\ PlanField("include_messages") = JBool(FALSE)
    /\ PlanField("include_calls") = JBool(FALSE)
    /\ PlanField("include_locations") = JBool(FALSE)
    /\ crit.include_messages /\ ~crit.include_calls /\ ~crit.include_locations
    /\ "messages" \in ran /\ "calls" \notin ran

\* the tokens the fallback scan takes from the query when it is given no
\* topic terms
ReExtracted ==
    extract_topic_terms(Lower(query), <<>>, store.contacts, crit.person_ids)

HasTermOf(content, terms) == \E term \in terms : Contains(Lower(content), term)

\* C30: when the fallback scan has run, the tokens it would take from the
\* query again are among the topic terms, so with no topic term there is
\* none of them and the scan filters on content exactly when there are topic
\* terms; then every message it returns holds a topic term or a term of the
\* suspicious list.
C30_FallbackContentFilter ==
    (stage = "fallback" /\ pc = "calls") =>
        /\ ReExtracted \subseteq crit.topic_terms
        /\ crit.topic_terms # {} =>
               \A i \in 1..Len(messages) :
                   HasTermOf(RowOf(store.messages, messages[i].message_id).content,
                             crit.topic_terms \cup SuspiciousSet)

\* a query whose words are all set aside: the fallback scan returned a
\* message with no suspicious term in it
C30_NoTermsNoFilter ==
    /\ stage = "fallback" /\ pc = "calls"
    /\ AlnumTokens(Lower(query)) # {}
    /\ crit.topic_terms = {}
    /\ \E i \in 1..Len(messages) :
           ~HasTermOf(RowOf(store.messages, messages[i].message_id).content, SuspiciousSet)

====
